---------------------------- MODULE Spec2Model ----------------------------
(***************************************************************************)
(* A model of the judicial judgment crawler: judicial_crawler_test.py (the *)
(* full variant: identifiers, dates, plain-text URLs, content) and         *)
(* judicial_crawler_prod.py (the simple variant: identifiers only).        *)
(*                                                                         *)
(* Text is modelled as a sequence of tokens.  In identifier and date text  *)
(* a token is one character: a CJK character is written as an ASCII name   *)
(* ("nian" for U+5E74, "du" for U+5EA6, "zi" for U+5B57, "di4" for U+7B2C, *)
(* "hao" for U+865F, ...).  In URLs and search-response bodies a token is  *)
(* a fixed substring ("qryresultlst.aspx", "q=", a hexadecimal run, ...).  *)
(* Concatenation is \o, substring search is search for a token run.        *)
(***************************************************************************)
EXTENDS Integers, Sequences, FiniteSets, TLC

(***************************************************************************)
(* Character classes of Python's re module (str patterns): \s, \d, \w.     *)
(***************************************************************************)
SpaceChars == {" ", "NL"}
DigitChars == {"0", "1", "2", "3", "4", "5", "6", "7", "8", "9"}
PunctChars == {"(", ")", "FLP", "FRP", ".", ",", "-", "+", "?", "=", "&", "/", ":", "%"}

IsSpace(c) == c \in SpaceChars
IsDigit(c) == c \in DigitChars
IsWordOrSpace(c) == c \notin PunctChars

Min(S) == CHOOSE x \in S : \A y \in S : x <= y
Max(S) == CHOOSE x \in S : \A y \in S : x >= y

\* Membership of character c in class cls: "s" is \s, "d" is \d, "ws" is [\w\s].
InClass(c, cls) ==
  CASE cls = "s" -> IsSpace(c)
    [] cls = "d" -> IsDigit(c)
    [] cls = "ws" -> IsWordOrSpace(c)

\* The position after the longest run of characters of class cls that starts
\* at position p of s (p itself when s[p] is not of the class).
RunEnd(s, p, cls) ==
  CHOOSE e \in p..(Len(s) + 1) :
    /\ \A i \in p..(e - 1) : InClass(s[i], cls)
    /\ e = Len(s) + 1 \/ ~InClass(s[e], cls)

At(s, p, c) == p >= 1 /\ p <= Len(s) /\ s[p] = c

\* str.strip(): leading and trailing whitespace removed.
Strip(s) ==
  LET keep == {i \in 1..Len(s) : ~IsSpace(s[i])}
  IN  IF keep = {} THEN <<>> ELSE SubSeq(s, Min(keep), Max(keep))

\* Concatenation of a sequence of token sequences.
RECURSIVE Flatten(_)
Flatten(ss) == IF ss = <<>> THEN <<>> ELSE Head(ss) \o Flatten(Tail(ss))

\* s[p..] starts with the token run t.
HasAt(s, p, t) ==
  /\ p >= 1
  /\ p + Len(t) - 1 <= Len(s)
  /\ \A k \in 1..Len(t) : s[p + k - 1] = t[k]

\* Python's `t in s` for strings.
Contains(s, t) == \E p \in 1..(Len(s) + 1) : HasAt(s, p, t)

StartsWith(s, t) == HasAt(s, 1, t)

(***************************************************************************)
(* The identifier patterns.  A match is settled the way Python's           *)
(* backtracking matcher settles it: leftmost start, then each quantifier   *)
(* in pattern order, greedy ones longest first, lazy ones shortest first.  *)
(* \s+, \d+ and \s* are followed by a character of another class, so     *)
(* each takes its whole run; the choices left are the start, the end of    *)
(* group 1 and the end of group 3.                                         *)
(***************************************************************************)
NoMatch == [ok |-> FALSE]

\* zi \s* di4 \s* (\d+) \s* hao, anchored at p.
TailMatch(s, p) ==
  LET p2 == RunEnd(s, p + 1, "s")
      p3 == RunEnd(s, p2 + 1, "s")
      p4 == RunEnd(s, p3, "d")
      p5 == RunEnd(s, p4, "s")
  IN  IF /\ At(s, p, "zi")
         /\ At(s, p2, "di4")
         /\ p4 > p3
         /\ At(s, p5, "hao")
      THEN [ok |-> TRUE, number |-> SubSeq(s, p3, p4 - 1), end |-> p5 + 1]
      ELSE NoMatch

\* The ends of group 3 (begun at b) after which the tail of the pattern matches.
TypeEnds(s, b) == {te \in (b + 1)..(RunEnd(s, b, "ws") - 1) : TailMatch(s, te).ok}

\* The groups of a match whose year is s[q1..q2-1] and whose tail is t.
RestGroups(s, q1, q2, case_type, t) ==
  [ok |-> TRUE, year |-> SubSeq(s, q1, q2 - 1), case_type |-> case_type,
   number |-> t.number, end |-> t.end]

\* Group 3 begun at b: its end is the last of `ends` (greedy) or the first
\* (lazy); with no such end, \s* gives its last character back to group 3.
RestChoose(s, q1, q2, a, b, lazy, ends) ==
  IF ends # {}
    THEN RestGroups(s, q1, q2, SubSeq(s, b, (IF lazy THEN Min(ends) ELSE Max(ends)) - 1),
                    TailMatch(s, IF lazy THEN Min(ends) ELSE Max(ends)))
  ELSE IF b > a /\ TailMatch(s, b).ok
    THEN RestGroups(s, q1, q2, <<>>, TailMatch(s, b))
  ELSE NoMatch

\* \s+ (\d+) \s* nian du \s* ([\w\s]+) zi \s* di4 \s* (\d+) \s* hao, anchored
\* at p; group 3 is greedy, or lazy ([\w\s]+?) when lazy is TRUE.
RestMatch(s, p, lazy) ==
  LET q1 == RunEnd(s, p, "s")
      q2 == RunEnd(s, q1, "d")
      q3 == RunEnd(s, q2, "s")
      b  == RunEnd(s, q3 + 2, "s")
  IN  IF q1 > p /\ q2 > q1 /\ HasAt(s, q3, <<"nian", "du">>)
      THEN RestChoose(s, q1, q2, q3 + 2, b, lazy, TypeEnds(s, b))
      ELSE NoMatch

\* A match: group 1 is s[i..e1-1], the other groups are those of r.
IdMatch(s, i, e1, r) ==
  [ok |-> TRUE, court |-> SubSeq(s, i, e1 - 1), year |-> r.year,
   case_type |-> r.case_type, number |-> r.number, start |-> i, end |-> r.end]

\* The ends of group 1 after which the rest of the pattern matches.
GroupOneEnds(s, from) == {p \in (from + 1)..(Len(s) + 1) : RestMatch(s, p, FALSE).ok}

\* The leftmost start i that reaches an end of okp, and the last end it reaches.
SearchIdAt(s, i, okp) ==
  IdMatch(s, i, Max({p \in okp : p > i /\ RunEnd(s, i, "ws") >= p}),
          RestMatch(s, Max({p \in okp : p > i /\ RunEnd(s, i, "ws") >= p}), FALSE))

SearchIdIn(s, starts, okp) ==
  IF starts = {} THEN NoMatch ELSE SearchIdAt(s, Min(starts), okp)

SearchIdFrom(s, from, okp) ==
  SearchIdIn(s, {i \in from..Len(s) : \E p \in okp : p > i /\ RunEnd(s, i, "ws") >= p},
             okp)

\* re.search from position `from` of
\*   ([\w\s]+)\s+(\d+)\s*nian du\s*([\w\s]+)zi\s*di4\s*(\d+)\s*hao
\* with the groups as matched (not stripped).
SearchId(s, from) == SearchIdFrom(s, from, GroupOneEnds(s, from))

\* Whether re.search finds
\*   (\d+)\.\s+([\w\s]+)\s+(\d+)\s*nian du\s*([\w\s]+)zi\s*di4\s*(\d+)\s*hao
\* in s (the paragraph filter of the block strategy).
SearchNumbered(s) ==
  \E d \in 1..Len(s) :
    /\ IsDigit(s[d])
    /\ At(s, d + 1, ".")
    /\ At(s, d + 2, " ") \/ At(s, d + 2, "NL")
    /\ \E p \in (d + 4)..(Len(s) + 1) :
         RunEnd(s, d + 2, "ws") >= p /\ RestMatch(s, p, FALSE).ok

\* judgment_pattern_precise
\*   ((?:tai wan|fu jian4)[\w\s]+?fa yuan(?:[\w\s]+?fen yuan)?)
\*     \s+(\d+)\s*nian du\s*([\w\s]+?)zi\s*di4\s*(\d+)\s*hao
\* i is where group 1 starts, x where "fa yuan" starts, y where "fen yuan"
\* starts.
PreciseOpen(s, i) == HasAt(s, i, <<"tai", "wan">>) \/ HasAt(s, i, <<"fu", "jian4">>)

PreciseYs(s, x) ==
  {y \in (x + 3)..Len(s) : /\ HasAt(s, y, <<"fen", "yuan">>)
                           /\ RunEnd(s, x + 2, "ws") >= y
                           /\ RestMatch(s, y + 2, TRUE).ok}

PreciseXs(s, i) ==
  {x \in (i + 3)..Len(s) : /\ HasAt(s, x, <<"fa", "yuan">>)
                           /\ RunEnd(s, i + 2, "ws") >= x
                           /\ PreciseYs(s, x) # {} \/ RestMatch(s, x + 2, TRUE).ok}

PreciseGroups(s, i, e1) == IdMatch(s, i, e1, RestMatch(s, e1, TRUE))

\* The optional group is tried first, its lazy run shortest first.
PreciseAtY(s, i, x, ys) == PreciseGroups(s, i, IF ys # {} THEN Min(ys) + 2 ELSE x + 2)

PreciseAtX(s, i, x) == PreciseAtY(s, i, x, PreciseYs(s, x))

PreciseIn(s, starts) ==
  IF starts = {} THEN NoMatch
  ELSE PreciseAtX(s, Min(starts), Min(PreciseXs(s, Min(starts))))

\* re.search from position `from` of judgment_pattern_precise.
SearchPrecise(s, from) ==
  PreciseIn(s, {i \in from..Len(s) : PreciseOpen(s, i) /\ PreciseXs(s, i) # {}})

\* The matches that follow m, when m is one.
RECURSIVE FindAll(_, _, _)
FindAfter(s, m, precise) == IF ~m.ok THEN <<>> ELSE <<m>> \o FindAll(s, m.end, precise)

\* pattern.finditer(s): the successive non-overlapping matches, left to right.
FindAll(s, from, precise) ==
  FindAfter(s, IF precise THEN SearchPrecise(s, from) ELSE SearchId(s, from), precise)

\* f"{court} {year} nian du {case_type}zi di4 {number} hao" over the stripped
\* groups of a match.
Reconstruct(m) ==
  Strip(m.court) \o <<" ">> \o Strip(m.year) \o <<" ", "nian", "du", " ">>
    \o Strip(m.case_type) \o <<"zi", " ", "di4", " ">> \o Strip(m.number)
    \o <<" ", "hao">>

(***************************************************************************)
(* Identifier Parser.                                                      *)
(***************************************************************************)
\* The groups of a match, each stripped; ok = FALSE for (None, None, None, None).
StrippedGroups(m) ==
  IF ~m.ok THEN [ok |-> FALSE]
  ELSE [ok |-> TRUE, court_name |-> Strip(m.court), year |-> Strip(m.year),
        case_type |-> Strip(m.case_type), case_number |-> Strip(m.number)]

\* parse_judgment_id: (court_name, year, case_type, case_number).
parse_judgment_id(judgment_id) == StrippedGroups(SearchId(judgment_id, 1))

(***************************************************************************)
(* Court-Code Resolver.  court_code_map in declaration order (a dict keeps *)
(* insertion order); a name is one token per character, a code one token   *)
(* per letter.                                                             *)
(***************************************************************************)
court_code_map == <<
  [name |-> <<"tai", "wan", "ji", "long", "di", "fang", "fa", "yuan">>,
   code |-> <<"K", "L", "D", "V">>],
  [name |-> <<"nei", "hu", "jian", "yi", "ting">>,
   code |-> <<"N", "H", "E", "V">>],
  [name |-> <<"tai", "wan", "tai", "bei", "di", "fang", "fa", "yuan">>,
   code |-> <<"T", "P", "D", "V">>],
  [name |-> <<"shi", "lin", "di", "fang", "fa", "yuan">>,
   code |-> <<"S", "L", "D", "V">>],
  [name |-> <<"tai", "wan", "xin", "bei", "di", "fang", "fa", "yuan">>,
   code |-> <<"P", "C", "D", "V">>],
  [name |-> <<"tai", "wan", "tao", "yuan2", "di", "fang", "fa", "yuan">>,
   code |-> <<"T", "Y", "D", "V">>],
  [name |-> <<"tai", "wan", "xin", "zhu", "di", "fang", "fa", "yuan">>,
   code |-> <<"S", "C", "D", "V">>],
  [name |-> <<"tai", "wan", "miao", "li", "di", "fang", "fa", "yuan">>,
   code |-> <<"M", "L", "D", "V">>],
  [name |-> <<"tai", "wan", "tai", "zhong", "di", "fang", "fa", "yuan">>,
   code |-> <<"T", "C", "D", "V">>],
  [name |-> <<"tai", "wan", "nan", "tou", "di", "fang", "fa", "yuan">>,
   code |-> <<"N", "T", "D", "V">>],
  [name |-> <<"tai", "wan", "zhang", "hua", "di", "fang", "fa", "yuan">>,
   code |-> <<"C", "H", "D", "V">>],
  [name |-> <<"tai", "wan", "yun", "lin", "di", "fang", "fa", "yuan">>,
   code |-> <<"Y", "L", "D", "V">>],
  [name |-> <<"tai", "wan", "jia", "yi4", "di", "fang", "fa", "yuan">>,
   code |-> <<"C", "Y", "D", "V">>],
  [name |-> <<"tai", "wan", "tai", "nan", "di", "fang", "fa", "yuan">>,
   code |-> <<"T", "N", "D", "V">>],
  [name |-> <<"tai", "wan", "gao", "xiong", "di", "fang", "fa", "yuan">>,
   code |-> <<"K", "S", "D", "V">>],
  [name |-> <<"tai", "wan", "ping", "dong", "di", "fang", "fa", "yuan">>,
   code |-> <<"P", "T", "D", "V">>],
  [name |-> <<"tai", "wan", "tai", "dong", "di", "fang", "fa", "yuan">>,
   code |-> <<"T", "T", "D", "V">>],
  [name |-> <<"tai", "wan", "hua1", "lian", "di", "fang", "fa", "yuan">>,
   code |-> <<"H", "L", "D", "V">>],
  [name |-> <<"tai", "wan", "yi2", "lan", "di", "fang", "fa", "yuan">>,
   code |-> <<"I", "L", "D", "V">>],
  [name |-> <<"tai", "wan", "gao", "deng", "fa", "yuan">>,
   code |-> <<"T", "P", "H", "V">>],
  [name |-> <<"luo", "dong", "jian", "yi", "ting">>,
   code |-> <<"L", "D", "E", "V">>],
  [name |-> <<"yi2", "lan", "di", "fang", "fa", "yuan", "luo", "dong", "jian", "yi", "ting">>,
   code |-> <<"L", "D", "E", "V">>],
  [name |-> <<"tai", "dong", "jian", "yi", "ting">>,
   code |-> <<"T", "T", "E", "V">>],
  [name |-> <<"tai", "bei", "jian", "yi", "ting">>,
   code |-> <<"T", "P", "E", "V">>],
  [name |-> <<"zhong", "li4", "jian", "yi", "ting">>,
   code |-> <<"T", "Y", "E", "V">>],
  [name |-> <<"gao", "xiong", "jian", "yi", "ting">>,
   code |-> <<"K", "S", "E", "V">>]
>>

\* str.replace(old, new): every non-overlapping occurrence, left to right.
RECURSIVE Replace(_, _, _)
Replace(s, old, new) ==
  IF s = <<>> THEN <<>>
  ELSE IF HasAt(s, 1, old)
       THEN new \o Replace(SubSeq(s, Len(old) + 1, Len(s)), old, new)
       ELSE <<Head(s)>> \o Replace(Tail(s), old, new)

DistrictCourt == <<"di", "fang", "fa", "yuan">>
SummaryCourt  == <<"jian", "yi", "ting">>

\* The substring loop without its early return: the last match stands.
C14_LastMatch(court_name) ==
  LET T == court_code_map
      exact == {k \in 1..Len(T) : T[k].name = court_name}
      part  == {k \in 1..Len(T) :
                  Contains(court_name, T[k].name) \/ Contains(T[k].name, court_name)}
  IN  IF exact # {}
        THEN [code |-> T[Min(exact)].code, step |-> "exact"]
      ELSE IF part # {}
        THEN [code |-> T[Max(part)].code, step |-> "substring"]
      ELSE [code |-> <<>>, step |-> "none"]

\* The substring step tried before the exact one.
C7_SubstringFirst(court_name) ==
  LET T == court_code_map
      exact == {k \in 1..Len(T) : T[k].name = court_name}
      part  == {k \in 1..Len(T) :
                  Contains(court_name, T[k].name) \/ Contains(T[k].name, court_name)}
  IN  IF part # {}
        THEN [code |-> T[Min(part)].code, step |-> "substring"]
      ELSE IF exact # {}
        THEN [code |-> T[Min(exact)].code, step |-> "exact"]
      ELSE [code |-> <<>>, step |-> "none"]

\* get_court_code: the code, and which step of the function returned it
\* ("exact", "substring", "summary", or "none" for None).
get_court_code(court_name) ==
  LET T == court_code_map
      exact == {k \in 1..Len(T) : T[k].name = court_name}
      part  == {k \in 1..Len(T) :
                  Contains(court_name, T[k].name) \/ Contains(T[k].name, court_name)}
      summ  == {k \in 1..Len(T) :
                  Contains(court_name, Replace(T[k].name, DistrictCourt, <<>>))}
  IN  IF exact # {}
        THEN [code |-> T[Min(exact)].code, step |-> "exact"]
      ELSE IF part # {}
        THEN [code |-> T[Min(part)].code, step |-> "substring"]
      ELSE IF Contains(court_name, SummaryCourt) /\ summ # {}
        THEN [code |-> Replace(T[Min(summ)].code, <<"D", "V">>, <<"E", "V">>),
              step |-> "summary"]
      ELSE [code |-> <<>>, step |-> "none"]

(***************************************************************************)
(* Date Converter.                                                         *)
(***************************************************************************)
\* str.split(sep) for a one-character separator.
RECURSIVE Split(_, _)
Split(s, sep) ==
  LET at == {i \in 1..Len(s) : s[i] = sep}
  IN  IF at = {} THEN <<s>>
      ELSE <<SubSeq(s, 1, Min(at) - 1)>> \o Split(SubSeq(s, Min(at) + 1, Len(s)), sep)

DigitValue(c) ==
  CASE c = "0" -> 0 [] c = "1" -> 1 [] c = "2" -> 2 [] c = "3" -> 3 [] c = "4" -> 4
    [] c = "5" -> 5 [] c = "6" -> 6 [] c = "7" -> 7 [] c = "8" -> 8 [] c = "9" -> 9

RECURSIVE DigitsValue(_)
DigitsValue(ds) ==
  IF ds = <<>> THEN 0
  ELSE 10 * DigitsValue(SubSeq(ds, 1, Len(ds) - 1)) + DigitValue(ds[Len(ds)])

\* int(text): surrounding whitespace is ignored, then an optional sign, then
\* decimal digits, single underscores allowed between digits; anything else
\* raises ValueError (ok = FALSE).
ParseInt(text) ==
  LET t == Strip(text)
      signed == t # <<>> /\ t[1] \in {"+", "-"}
      body == IF signed THEN Tail(t) ELSE t
      ds == Replace(body, <<"_">>, <<>>)
  IN  IF /\ body # <<>>
         /\ \A i \in 1..Len(body) :
              \/ IsDigit(body[i])
              \/ /\ body[i] = "_"
                 /\ i > 1 /\ i < Len(body)
                 /\ IsDigit(body[i - 1]) /\ IsDigit(body[i + 1])
      THEN [ok |-> TRUE,
            value |-> IF signed /\ t[1] = "-" THEN 0 - DigitsValue(ds)
                      ELSE DigitsValue(ds)]
      ELSE [ok |-> FALSE]

DigitChar(d) == <<"0", "1", "2", "3", "4", "5", "6", "7", "8", "9">>[d + 1]

RECURSIVE NatDigits(_)
NatDigits(n) ==
  IF n < 10 THEN <<DigitChar(n)>> ELSE NatDigits(n \div 10) \o <<DigitChar(n % 10)>>

RECURSIVE Zeros(_)
Zeros(k) == IF k <= 0 THEN <<>> ELSE <<"0">> \o Zeros(k - 1)

\* format(n, "0{width}d"): the sign, then zeros up to the width, then digits.
FormatInt(n, width) ==
  LET sign == IF n < 0 THEN <<"-">> ELSE <<>>
      ds   == NatDigits(IF n < 0 THEN 0 - n ELSE n)
  IN  sign \o Zeros(width - Len(sign) - Len(ds)) \o ds

RocEpoch == 1911

\* The month and the day written without padding.
C8_NoPadding(roc_date) ==
  LET parts == Split(roc_date, ".")
      y == ParseInt(parts[1])
      m == ParseInt(parts[2])
      d == ParseInt(parts[3])
  IN  IF Len(parts) = 3 /\ y.ok /\ m.ok /\ d.ok
      THEN [ok |-> TRUE,
            date |-> FormatInt(y.value + RocEpoch, 4) \o FormatInt(m.value, 0)
                       \o FormatInt(d.value, 0)]
      ELSE [ok |-> FALSE]

\* convert_roc_date_to_ad: the formatted date, or ok = FALSE for None.
convert_roc_date_to_ad(roc_date) ==
  LET parts == Split(roc_date, ".")
      y == ParseInt(parts[1])
      m == ParseInt(parts[2])
      d == ParseInt(parts[3])
  IN  IF Len(parts) = 3 /\ y.ok /\ m.ok /\ d.ok
      THEN [ok |-> TRUE,
            date |-> FormatInt(y.value + RocEpoch, 4) \o FormatInt(m.value, 2)
                       \o FormatInt(d.value, 2)]
      ELSE [ok |-> FALSE]

(***************************************************************************)
(* URLs.  A URL is a token sequence; Host, "/FJUD/", "qryresultlst.aspx",  *)
(* "data.aspx", "?", "&", "=", "q=" and parameter values are tokens.       *)
(***************************************************************************)
Host == "https://judgment.judicial.gov.tw"
base_url == <<Host, "/FJUD/">>
ListingPath == <<"qryresultlst.aspx">>
HttpTokens == {Host, "http://mirror.example"}
SlashTokens == {"/FJUD/", "/"}
HexTokens == {"ab12", "0f"}

\* href if href.startswith('http') else (host + href if href.startswith('/')
\* else base_url + href)
Absolutize(href) ==
  IF href # <<>> /\ href[1] \in HttpTokens THEN href
  ELSE IF href # <<>> /\ href[1] \in SlashTokens THEN <<Host>> \o href
  ELSE base_url \o href

\* query_id_pattern.search(text) for q=([a-f0-9]+): group 1 of the first
\* match, the longest hexadecimal run after the first "q=" that has one.
QueryId(text) ==
  LET at == {p \in 1..(Len(text) - 1) : text[p] = "q=" /\ text[p + 1] \in HexTokens}
      p  == Min(at)
      e  == CHOOSE e \in (p + 1)..Len(text) :
              /\ \A i \in (p + 1)..e : text[i] \in HexTokens
              /\ e = Len(text) \/ text[e + 1] \notin HexTokens
  IN  IF at = {} THEN [ok |-> FALSE] ELSE [ok |-> TRUE, id |-> SubSeq(text, p + 1, e)]

(***************************************************************************)
(* Result-Location Resolver.  A response body is a sequence of elements:   *)
(*   [tag |-> "a", href, text]   a hyperlink                               *)
(*   [tag |-> "script", stmts]   an inline script, a sequence of           *)
(*                               assignments [lhs, target]                 *)
(*   [tag |-> "text", text]      a text node                               *)
(*   [tag |-> "comment", text]   markup that is in the raw body only       *)
(***************************************************************************)
error_messages == <<"ERR_INVALID_TERMS", "ERR_NO_DATA", "ERR_BUSY", "ERR_SYSTEM">>

\* The left-hand sides each of redirect_patterns matches, in pattern order:
\* "location.href" is a substring of "window.location.href".
redirect_patterns == <<
  {"window.location.href"},
  {"window.location.href", "location.href"},
  {"window.location"}
>>

StmtText(st) == <<st.lhs, "=", "'">> \o st.target \o <<"'", ";">>

ScriptText(el) == Flatten([k \in 1..Len(el.stmts) |-> StmtText(el.stmts[k])])

\* The element as it stands in html_content.
RawOf(el) ==
  CASE el.tag = "a" -> <<"<a href=">> \o el.href \o <<">">> \o el.text \o <<"</a>">>
    [] el.tag = "script" -> <<"<script>">> \o ScriptText(el) \o <<"</script>">>
    [] el.tag = "text" -> el.text
    [] el.tag = "comment" -> <<"<!--">> \o el.text \o <<"-->">>

RawBody(body) == Flatten([k \in 1..Len(body) |-> RawOf(body[k])])

\* soup.get_text(): the text nodes in document order.  scripts tells whether
\* the installed BeautifulSoup counts script strings as text (releases differ).
TextOf(el, scripts) ==
  CASE el.tag = "a" -> el.text
    [] el.tag = "script" -> IF scripts THEN ScriptText(el) ELSE <<>>
    [] el.tag = "text" -> el.text
    [] el.tag = "comment" -> <<>>

PageText(body, scripts) == Flatten([k \in 1..Len(body) |-> TextOf(body[k], scripts)])

HasErrorPhrase(body) ==
  \E k \in 1..Len(error_messages) : Contains(RawBody(body), <<error_messages[k]>>)

\* Step 2: the hyperlinks whose href has a q=<hex> token and the listing path.
LinkHits(body) ==
  {k \in 1..Len(body) :
     /\ body[k].tag = "a"
     /\ QueryId(body[k].href).ok
     /\ Contains(body[k].href, ListingPath)}

\* Step 3: redirect_regex.search(script_text) for pattern n in script k: the
\* first assignment of the script the pattern matches.
FirstRedirect(el, n) ==
  LET at == {j \in 1..Len(el.stmts) : el.stmts[j].lhs \in redirect_patterns[n]}
  IN  IF at = {} THEN [ok |-> FALSE] ELSE [ok |-> TRUE, url |-> el.stmts[Min(at)].target]

\* The <<pattern, script>> pairs at which the nested loops of step 3 would
\* return: the pattern's first match in the script targets the listing path.
ScriptHits(body) ==
  {h \in (1..Len(redirect_patterns)) \X (1..Len(body)) :
     /\ body[h[2]].tag = "script"
     /\ FirstRedirect(body[h[2]], h[1]).ok
     /\ Contains(FirstRedirect(body[h[2]], h[1]).url, ListingPath)}

\* The first of them in loop order: patterns outside, scripts inside.
FirstScriptHit(body) ==
  CHOOSE h \in ScriptHits(body) :
    \A g \in ScriptHits(body) : h[1] < g[1] \/ (h[1] = g[1] /\ h[2] <= g[2])

NotFound == [found |-> FALSE, url |-> <<>>, by |-> "none"]

\* The steps of extract_query_result_url that would succeed on the body, each
\* taken alone.
Succeeding(body, scripts) ==
  {step \in {"error", "link", "script", "text"} :
     CASE step = "error" -> HasErrorPhrase(body)
       [] step = "link" -> LinkHits(body) # {}
       [] step = "script" -> ScriptHits(body) # {}
       [] step = "text" -> QueryId(PageText(body, scripts)).ok}

\* Step 2: the first hyperlink that qualifies, made absolute.
LinkStep(body) ==
  IF LinkHits(body) = {} THEN NotFound
  ELSE [found |-> TRUE, url |-> Absolutize(body[Min(LinkHits(body))].href), by |-> "link"]

\* Step 3: the first script redirect to the listing path, made absolute.
ScriptStep(body) ==
  IF ScriptHits(body) = {} THEN NotFound
  ELSE [found |-> TRUE, by |-> "script",
        url |-> Absolutize(FirstRedirect(body[FirstScriptHit(body)[2]],
                                         FirstScriptHit(body)[1]).url)]

\* Step 4: the first q=<hex> token of the page text, put in a listing URL.
TextUrl(qid) ==
  IF ~qid.ok THEN NotFound
  ELSE [found |-> TRUE, by |-> "text",
        url |-> base_url \o <<"qryresultlst.aspx", "?", "ty=SIMJUDBOOK", "&", "q=">>
                  \o qid.id]

TextStep(body, scripts) == TextUrl(QueryId(PageText(body, scripts)))

\* The result of the first step that found a URL; NotFound when none did.
FirstFound(steps) ==
  IF \A k \in 1..Len(steps) : ~steps[k].found THEN NotFound
  ELSE steps[Min({k \in 1..Len(steps) : steps[k].found})]

\* The resolver whose error check reads the page text, not the raw body.
C1_ErrorCheckOnText(body, scripts) ==
  IF \E k \in 1..Len(error_messages) :
       Contains(PageText(body, scripts), <<error_messages[k]>>)
  THEN [NotFound EXCEPT !.by = "error"]
  ELSE FirstFound(<<LinkStep(body), ScriptStep(body), TextStep(body, scripts)>>)

\* The resolver that looks at the scripts before the hyperlinks.
C2_ScriptsBeforeLinks(body, scripts) ==
  IF HasErrorPhrase(body) THEN [NotFound EXCEPT !.by = "error"]
  ELSE FirstFound(<<ScriptStep(body), LinkStep(body), TextStep(body, scripts)>>)

\* extract_query_result_url: the URL, or found = FALSE for None; `by` names
\* the step that returned.
extract_query_result_url(body, scripts) ==
  IF HasErrorPhrase(body) THEN [NotFound EXCEPT !.by = "error"]
  ELSE FirstFound(<<LinkStep(body), ScriptStep(body), TextStep(body, scripts)>>)

(***************************************************************************)
(* Listing pages.  A page is a sequence of elements in document order:     *)
(*   [tag |-> "table", id, rows]   rows a sequence of rows, a row a        *)
(*                                 sequence of cells, a cell a sequence of *)
(*                                 pieces                                  *)
(*   [tag |-> "div", cls, pieces]  [tag |-> "p", cls, pieces]              *)
(* A piece is one string of the parse tree: [text, link, href], link TRUE  *)
(* when the string is the text of an <a href=...>.                         *)
(***************************************************************************)
\* Tag.get_text(strip=True) over the strings of an element: each stripped,
\* the empty ones dropped, the rest joined by sep.
RECURSIVE JoinStripped(_, _)
JoinStripped(pieces, sep) ==
  IF pieces = <<>> THEN <<>>
  ELSE LET h == Strip(Head(pieces).text)
           t == JoinStripped(Tail(pieces), sep)
       IN  IF h = <<>> THEN t
           ELSE IF t = <<>> THEN h
           ELSE h \o sep \o t

\* Tag.get_text(): the strings as they are, concatenated.
RECURSIVE JoinRaw(_)
JoinRaw(pieces) ==
  IF pieces = <<>> THEN <<>> ELSE Head(pieces).text \o JoinRaw(Tail(pieces))

CellsOf(table) == Flatten(table.rows)

PiecesOf(el) == IF el.tag = "table" THEN Flatten(CellsOf(el)) ELSE el.pieces

PagePieces(page) == Flatten([k \in 1..Len(page) |-> PiecesOf(page[k])])

HeaderId   == <<"cai", "pan", "zi", "hao">>
HeaderDate == <<"cai", "pan", "ri", "qi">>

\* table.get('id') == 'gvMain' or (both header strings in table.get_text())
IsResultTable(el) ==
  /\ el.tag = "table"
  /\ \/ el.id = "gvMain"
     \/ /\ Contains(JoinRaw(PiecesOf(el)), HeaderId)
        /\ Contains(JoinRaw(PiecesOf(el)), HeaderDate)

\* The first table the loop over soup.find_all('table') accepts (0: none).
ResultTable(page) ==
  LET hits == {k \in 1..Len(page) : IsResultTable(page[k])}
  IN  IF hits = {} THEN 0 ELSE Min(hits)

\* links[0].get('href', '') resolved, or "" when the pieces hold no link.
FirstLinkUrl(pieces) ==
  LET links == {k \in 1..Len(pieces) : pieces[k].link}
  IN  IF links = {} THEN <<>> ELSE Absolutize(pieces[Min(links)].href)

\* re.sub(r'\s*FLP.*?FRP\s*|\s*\(.*?\)\s*', '', text): each parenthesised run
\* (half or full width, not across a line break) goes, with the whitespace
\* around it.
RECURSIVE StripAnnotations(_)
StripAnnotations(text) ==
  LET Close(j) == IF text[j] = "FLP" THEN "FRP" ELSE ")"
      Ends(j) == {c \in (j + 1)..Len(text) :
                    /\ text[c] = Close(j)
                    /\ \A i \in (j + 1)..(c - 1) : text[i] # "NL"}
      opens == {j \in 1..Len(text) : text[j] \in {"FLP", "("} /\ Ends(j) # {}}
      Start(j) == Min({i \in 1..j : \A x \in i..(j - 1) : IsSpace(text[x])})
      first == CHOOSE j \in opens : \A g \in opens : Start(j) <= Start(g)
      stop == RunEnd(text, Min(Ends(first)) + 1, "s")
  IN  IF opens = {} THEN text
      ELSE SubSeq(text, 1, Start(first) - 1)
             \o StripAnnotations(SubSeq(text, stop, Len(text)))

\* re.search(r'(\d{1,3})\.(\d{1,2})\.(\d{1,2})', text), recomposed as
\* "g1.g2.g3"; <<>> when there is no match.
DateSearch(text) ==
  LET Run(i) == RunEnd(text, i, "d") - i
      ok == {i \in 1..Len(text) :
               /\ IsDigit(text[i])
               /\ Run(i) <= 3
               /\ At(text, i + Run(i), ".")
               /\ Run(i + Run(i) + 1) \in {1, 2}
               /\ At(text, i + Run(i) + 1 + Run(i + Run(i) + 1), ".")
               /\ Run(i + Run(i) + 2 + Run(i + Run(i) + 1)) >= 1}
      i  == Min(ok)
      d3 == i + Run(i) + 2 + Run(i + Run(i) + 1)
  IN  IF ok = {} THEN <<>>
      ELSE SubSeq(text, i, d3 + (IF Run(d3) >= 2 THEN 2 ELSE 1) - 1)

\* \s*([\w\s]+)(?:\s|$) anchored at r: group 1 stripped.  The group takes
\* its whole run when the run ends the text, else it ends before the last
\* whitespace of the run; when that leaves it nothing after the leading
\* whitespace, \s* gives a character back and the group is whitespace.
CaseRest(text, r) ==
  LET r1 == RunEnd(text, r, "s")
      w  == RunEnd(text, r1, "ws")
      gs == {g \in (r1 + 1)..(w - 1) : IsSpace(text[g])}
  IN  IF w > r1 /\ w = Len(text) + 1
        THEN [ok |-> TRUE, value |-> Strip(SubSeq(text, r1, Len(text)))]
      ELSE IF w > r1 /\ gs # {}
        THEN [ok |-> TRUE, value |-> Strip(SubSeq(text, r1, Max(gs) - 1))]
      ELSE IF r1 - r >= 2 \/ (r1 - r >= 1 /\ r1 = Len(text) + 1)
        THEN [ok |-> TRUE, value |-> <<>>]
      ELSE [ok |-> FALSE]

\* re.search(r'hao[\w\s]*?(?:FLP.*?FRP|\(.*?\))?\s*([\w\s]+)(?:\s|$)', text):
\* group 1 stripped, <<>> when there is no match.  A candidate is
\* <<h, a, k, c>>: "hao" at h, the lazy run ends before a, and either a
\* parenthesis opens at a and closes at c (k = 0) or none is taken (k = 1).
CaseTypeSearch(text) ==
  LET L == Len(text) + 2
      Close(a) == IF text[a] = "FLP" THEN "FRP" ELSE ")"
      cands ==
        {x \in (1..Len(text)) \X (1..L) \X {0, 1} \X (0..Len(text)) :
           LET h == x[1]  a == x[2]  k == x[3]  c == x[4]
           IN  /\ text[h] = "hao"
               /\ a > h /\ a <= RunEnd(text, h + 1, "ws")
               /\ IF k = 1 THEN c = 0 /\ CaseRest(text, a).ok
                  ELSE /\ a <= Len(text) /\ text[a] \in {"FLP", "("}
                       /\ c > a /\ text[c] = Close(a)
                       /\ \A i \in (a + 1)..(c - 1) : text[i] # "NL"
                       /\ CaseRest(text, c + 1).ok}
      Rank(x) == ((x[1] * L + x[2]) * 2 + x[3]) * L + x[4]
      best == CHOOSE x \in cands : \A y \in cands : Rank(x) <= Rank(y)
  IN  IF cands = {} THEN <<>>
      ELSE CaseRest(text, IF best[3] = 1 THEN best[2] ELSE best[4] + 1).value

(***************************************************************************)
(* Listing Extractor, full variant (judicial_crawler_test.py).  A record   *)
(* is a dict: a function from its keys to their values.                    *)
(***************************************************************************)
JudgmentRecord(id, date, case_type, url) ==
  [id |-> id, date |-> date, case_type |-> case_type, url |-> url]

ContextBefore == 50
ContextAfter  == 100

\* One data row of the result table; <<>> when the row has fewer than 3 cells.
TableRow(cells) ==
  IF Len(cells) < 3 THEN <<>>
  ELSE <<JudgmentRecord(StripAnnotations(JoinStripped(cells[2], <<>>)),
                        JoinStripped(cells[3], <<>>),
                        IF Len(cells) > 3 THEN JoinStripped(cells[4], <<>>) ELSE <<>>,
                        FirstLinkUrl(cells[2]))>>

\* The table strategy: every row after the first.
TableRecords(table) ==
  Flatten([r \in 1..(Len(table.rows) - 1) |-> TableRow(table.rows[r + 1])])

\* The blocks the block strategy reads: the div.jud elements, or when there
\* is none the p and div elements whose text the numbered pattern finds.
JudgmentBlocks(page) ==
  LET jud == SelectSeq(page, LAMBDA el : el.tag = "div" /\ el.cls = "jud")
  IN  IF jud # <<>> THEN jud
      ELSE SelectSeq(page, LAMBDA el : /\ el.tag \in {"p", "div"}
                                       /\ SearchNumbered(JoinStripped(el.pieces, <<>>)))

BlockRecord(el) ==
  LET text == JoinStripped(el.pieces, <<>>)
      m == SearchId(text, 1)
  IN  IF ~m.ok THEN <<>>
      ELSE <<JudgmentRecord(Reconstruct(m), DateSearch(text), CaseTypeSearch(text),
                            FirstLinkUrl(el.pieces))>>

BlockRecords(page) ==
  LET blocks == JudgmentBlocks(page)
  IN  Flatten([k \in 1..Len(blocks) |-> BlockRecord(blocks[k])])

\* The record of a match of the raw-text strategy: the date is searched in
\* the context, 50 characters before the match to 100 after it.
RawRecord(text, m) ==
  JudgmentRecord(Reconstruct(m),
                 DateSearch(SubSeq(text, Max({1, m.start - ContextBefore}),
                                   Min({Len(text), m.end - 1 + ContextAfter}))),
                 <<>>, <<>>)

RawMatches(text, ms) == [k \in 1..Len(ms) |-> RawRecord(text, ms[k])]

RawText(text) == RawMatches(text, FindAll(text, 1, FALSE))

\* The raw-text strategy over soup.get_text().
RawRecords(page) == RawText(JoinRaw(PagePieces(page)))

\* extract_judgments_from_list of the full variant: the records, and the
\* strategies it ran, in order.
FirstOrRaw(page, first, tried) ==
  IF first # <<>> THEN [judgments |-> first, tried |-> tried]
  ELSE [judgments |-> RawRecords(page), tried |-> tried \o <<"raw">>]

\* The block strategy also tried after a table that gave no record.
C13_BlockAfterEmptyTable(page, t) ==
  IF t # 0 /\ TableRecords(page[t]) # <<>>
  THEN [judgments |-> TableRecords(page[t]), tried |-> <<"table">>]
  ELSE FirstOrRaw(page, BlockRecords(page),
                  IF t # 0 THEN <<"table", "block">> ELSE <<"block">>)

TableOrBlock(page, t) ==
  IF t # 0 THEN FirstOrRaw(page, TableRecords(page[t]), <<"table">>)
  ELSE FirstOrRaw(page, BlockRecords(page), <<"block">>)

extract_judgments_from_list(page) == TableOrBlock(page, ResultTable(page))

(***************************************************************************)
(* Listing Extractor, simple variant (judicial_crawler_prod.py).           *)
(***************************************************************************)
\* potential_ids of the table strategy: the second cell of every row after
\* the first that has at least 2 cells.
TableTexts(table) ==
  Flatten([r \in 1..(Len(table.rows) - 1) |->
             IF Len(table.rows[r + 1]) >= 2
             THEN <<JoinStripped(table.rows[r + 1][2], <<>>)>> ELSE <<>>])

\* potential_ids of the text strategy: the precise pattern over
\* soup.get_text(separator='\n', strip=True), each match recomposed.
TextIds(page) ==
  LET ms == FindAll(JoinStripped(PagePieces(page), <<"NL">>), 1, TRUE)
  IN  [k \in 1..Len(ms) |-> Reconstruct(ms[k])]

\* extract_judgments_from_list of the simple variant: clean_judgment_ids, the
\* set the returned list is made of.
\* clean_judgment_ids: every non-empty string in which the precise pattern
\* finds a match, recomposed from the first match.
CleanMatches(ms) == {Reconstruct(m) : m \in {x \in ms : x.ok}}

CleanIds(potential_ids) ==
  CleanMatches({SearchPrecise(Strip(potential_ids[j]), 1) :
                  j \in {i \in 1..Len(potential_ids) : potential_ids[i] # <<>>}})

TableOrText(page, table_ids) ==
  CleanIds(IF table_ids # <<>> THEN table_ids ELSE TextIds(page))

TableIds(page, t) == TableOrText(page, IF t # 0 THEN TableTexts(page[t]) ELSE <<>>)

extract_judgment_ids(page) == TableIds(page, ResultTable(page))

(***************************************************************************)
(* Plain-Text URL Deriver.                                                 *)
(***************************************************************************)
UpperLetters == {"A", "B", "C", "D", "E", "F", "G", "H", "I", "J", "K", "L", "M",
                 "N", "O", "P", "Q", "R", "S", "T", "U", "V", "W", "X", "Y", "Z"}
SafeChars == DigitChars \cup UpperLetters \cup {"_", ".", "-", "~", "/"}

\* urllib.parse.quote, token by token: a safe character stands, any other
\* becomes an escape: "%" and the escaped value ("2C" for a comma, "20" for
\* a space, the character itself for the UTF-8 bytes of a CJK character).
QuoteChar(c) ==
  IF c \in SafeChars THEN <<c>>
  ELSE IF c = "," THEN <<"%", "2C">>
  ELSE IF c = " " THEN <<"%", "20">>
  ELSE IF c = "NL" THEN <<"%", "0A">>
  ELSE <<"%", c>>

quote(text) == Flatten([k \in 1..Len(text) |-> QuoteChar(text[k])])

\* urllib.parse.unquote_plus, as parse_qs applies it to a value.
RECURSIVE Unquote(_)
Unquote(text) ==
  IF text = <<>> THEN <<>>
  ELSE IF text[1] = "%" /\ Len(text) >= 2
    THEN <<CASE text[2] \in {"2C", "2c"} -> ","
             [] text[2] = "20" -> " "
             [] text[2] \in {"0A", "0a"} -> "NL"
             [] OTHER -> text[2]>> \o Unquote(SubSeq(text, 3, Len(text)))
  ELSE IF text[1] = "+" THEN <<" ">> \o Unquote(Tail(text))
  ELSE <<text[1]>> \o Unquote(Tail(text))

\* parse_qs(urlparse(url).query)['id']: the decoded values of the id
\* parameters with a non-blank value, in order.
IdParams(url) ==
  LET qm == {i \in 1..Len(url) : url[i] = "?"}
      after == IF qm = {} THEN <<>> ELSE SubSeq(url, Min(qm) + 1, Len(url))
      qs == Split(after, "#")[1]
      Name(pr) == Unquote(Split(pr, "=")[1])
      Value(pr) == SubSeq(pr, Len(Split(pr, "=")[1]) + 2, Len(pr))
  IN  SelectSeq(Split(qs, "&"), LAMBDA pr : /\ Contains(pr, <<"=">>)
                                            /\ Name(pr) = <<"id">>
                                            /\ Value(pr) # <<>>)

\* The id values as they stand in the URL, not decoded.
C4_QueryIdsVerbatim(url) ==
  [k \in 1..Len(IdParams(url)) |->
     SubSeq(IdParams(url)[k], Len(Split(IdParams(url)[k], "=")[1]) + 2,
            Len(IdParams(url)[k]))]

QueryIds(url) ==
  [k \in 1..Len(IdParams(url)) |->
     Unquote(SubSeq(IdParams(url)[k], Len(Split(IdParams(url)[k], "=")[1]) + 2,
                    Len(IdParams(url)[k])))]

\* The export URL written with ispdf=1 whatever the loop's flag.
C15_FlagIgnored(id_param, ispdf) ==
  <<Host, "/EXPORTFILE/", "reformat.aspx", "?", "type", "=", "JD", "&", "id", "=">>
    \o id_param \o <<"&", "lawpara", "=", "&", "ispdf", "=", "1">>

ExportUrl(id_param, ispdf) ==
  <<Host, "/EXPORTFILE/", "reformat.aspx", "?", "type", "=", "JD", "&", "id", "=">>
    \o id_param \o <<"&", "lawpara", "=", "&", "ispdf", "=", ispdf>>

RenderFlags == <<"1", "0">>
MaxVersion == 5
MinProbeLength == 100

\* The probe's validity test (the same in both strategies).
ProbeValid(reply) ==
  /\ ~reply.raised
  /\ reply.status = 200
  /\ reply.length > MinProbeLength
  /\ ~reply.no_data
  /\ ~reply.error

\* join of the id parts with ",", percent-encoded.
EncodedId(court_code, year, case_type, case_number, judgment_date, version) ==
  quote(court_code \o <<",">> \o year \o <<",">> \o case_type \o <<",">>
          \o case_number \o <<",">> \o judgment_date \o <<",">> \o NatDigits(version))

\* The direct rewrite of generate_plain_text_url_for_judgment applies: the
\* record has a data.aspx URL with an id parameter.
DirectApplies(rec) ==
  /\ rec.url # <<>>
  /\ Contains(rec.url, <<"/FJUD/", "data.aspx">>)
  /\ QueryIds(rec.url) # <<>>

\* The synthesized construction up to its first probe: the encoded id of
\* version `version`, or ok = FALSE where the function returns None.
SynthDated(parsed, court_code, date, version) ==
  IF ~date.ok \/ date.date = <<>> THEN [ok |-> FALSE, why |-> "date"]
  ELSE [ok |-> TRUE,
        id |-> EncodedId(court_code, parsed.year, parsed.case_type,
                         parsed.case_number, date.date, version)]

SynthCoded(rec, parsed, court_code, version) ==
  IF court_code = <<>> THEN [ok |-> FALSE, why |-> "court"]
  ELSE SynthDated(parsed, court_code, convert_roc_date_to_ad(rec.date), version)

SynthParsed(rec, parsed, version) ==
  IF ~parsed.ok \/ parsed.court_name = <<>> \/ parsed.year = <<>>
       \/ parsed.case_type = <<>> \/ parsed.case_number = <<>>
    THEN [ok |-> FALSE, why |-> "parse"]
  ELSE SynthCoded(rec, parsed, get_court_code(parsed.court_name).code, version)

SynthId(rec, version) == SynthParsed(rec, parse_judgment_id(rec.id), version)

(***************************************************************************)
(* Content Fetcher.                                                        *)
(***************************************************************************)
MaxContentLength == 500000

\* re.sub(r'[\r\n]+', '\n', text) then re.sub(r' +', ' ', text): a run of
\* line breaks becomes one, a run of spaces becomes one.
RECURSIVE Collapse(_)
Collapse(text) ==
  IF Len(text) < 2 THEN text
  ELSE IF text[1] = text[2] /\ text[1] \in {" ", "NL"} THEN Collapse(Tail(text))
  ELSE <<text[1]>> \o Collapse(Tail(text))

\* The except branch returning an empty text.
C11_EmptyOnFailure(reply) ==
  LET text == Strip(Collapse(Strip(reply.text)))
  IN  IF reply.raised \/ reply.status >= 400 THEN <<>>
      ELSE IF Len(text) > MaxContentLength
        THEN SubSeq(text, 1, MaxContentLength) \o <<"TRUNCATION_MARKER">>
      ELSE text

\* fetch_judgment_content on a reply: the flattened text, or the failure
\* message the except branch returns.
fetch_judgment_content(reply) ==
  LET text == Strip(Collapse(Strip(reply.text)))
  IN  IF reply.raised \/ reply.status >= 400 THEN <<"FETCH_FAILED_MESSAGE">>
      ELSE IF Len(text) > MaxContentLength
        THEN SubSeq(text, 1, MaxContentLength) \o <<"TRUNCATION_MARKER">>
      ELSE text

(***************************************************************************)
(* What the portal may answer.                                             *)
(***************************************************************************)
Chars108 == <<"1", "0", "8">>
Chars100 == <<"1", "0", "0">>
TaipeiCourt  == <<"tai", "wan", "tai", "bei", "di", "fang", "fa", "yuan">>
SupremeCourt == <<"zui", "gao", "fa", "yuan">>
Annotation   == <<" ", "(", "li3", "shi3", "pan", "jue", ")">>
TortCase     == <<"qin", "quan", "xing", "wei">>
Date1080501  == <<"1", "0", "8", ".", "0", "5", ".", "0", "1">>

\* "<court> <year> nian du<type>zi di4 <number> hao": an identifier as the
\* portal prints it.
PortalId(court, year, type, number) ==
  court \o <<" ">> \o year \o <<" ", "nian", "du">> \o type
    \o <<"zi", "di4", " ">> \o number \o <<" ", "hao">>

Plain(text) == [text |-> text, link |-> FALSE, href |-> <<>>]
Link(text, href) == [text |-> text, link |-> TRUE, href |-> href]
Cell(text) == <<Plain(text)>>

\* data.aspx?ty=JD&id=<token>, relative to the portal's base.
DataHref(token) == <<"data.aspx", "?", "ty", "=", "JD", "&", "id", "=">> \o token

EscapedToken == <<"T", "P", "D", "V", "%", "2c", "1">>
PlainToken   == <<"X", "1">>

HeaderRow == <<Cell(<<"xu", "hao">>), Cell(HeaderId), Cell(HeaderDate), Cell(<<"an", "you">>)>>

DataRow(idcell, date) == <<Cell(<<"1">>), idcell, Cell(date), Cell(TortCase)>>

ResultPage(rows) == <<[tag |-> "table", id |-> "gvMain", rows |-> <<HeaderRow>> \o rows]>>

TaipeiId == PortalId(TaipeiCourt, Chars108, <<"min">>, Chars100)

\* The listing pages of the pipeline specification.
Pages == {
  <<>>,
  ResultPage(<<>>),
  ResultPage(<<DataRow(<<Link(TaipeiId, DataHref(EscapedToken)), Plain(Annotation)>>,
                       Date1080501)>>),
  ResultPage(<<DataRow(<<Link(TaipeiId, <<"other.aspx", "?", "id", "=">> \o PlainToken)>>,
                       Date1080501)>>),
  ResultPage(<<DataRow(<<Plain(TaipeiId \o Annotation)>>, Date1080501)>>),
  ResultPage(<<DataRow(<<Plain(TaipeiId)>>, <<"a", "b", "c">>),
               DataRow(<<Plain(TaipeiId)>>, Date1080501)>>),
  ResultPage(<<DataRow(<<Plain(PortalId(SupremeCourt, Chars108, <<"min">>, Chars100))>>,
                       Date1080501)>>),
  ResultPage(<<DataRow(<<Plain(<<"min", "shi4">>)>>, Date1080501)>>),
  ResultPage(<<DataRow(<<Link(<<"min", "shi4">>, <<"/FJUD/", "other.aspx">>)>>, <<>>)>>),
  <<[tag |-> "table", id |-> "", rows |-> <<HeaderRow, <<Cell(<<"1">>), Cell(TaipeiId)>>>>]>>,
  <<[tag |-> "div", cls |-> "jud",
     pieces |-> <<Link(TaipeiId, DataHref(PlainToken)), Plain(<<" ">> \o Date1080501)>>]>>,
  <<[tag |-> "p", cls |-> "", pieces |-> <<Plain(<<"min", "shi4", "pan", "jue">>)>>]>>
}

\* A listing URL the portal redirects a search to.
ListingUrl == base_url \o <<"qryresultlst.aspx", "?", "ty=JUDBOOK", "&", "q=", "ab12">>

Anchor(href) == [tag |-> "a", href |-> href, text |-> <<"link">>]
TextNode(text) == [tag |-> "text", text |-> text]
Comment(text) == [tag |-> "comment", text |-> text]
Script(stmts) == [tag |-> "script", stmts |-> stmts]
Assign(lhs, target) == [lhs |-> lhs, target |-> target]

ListingHref == <<"qryresultlst.aspx", "?", "ty=JUDBOOK", "&", "q=", "0f">>
OtherHref   == <<"/FJUD/", "help.aspx", "?", "q=", "0f">>

\* The search-response bodies of the pipeline specification: each of an
\* error phrase, a hyperlink, a script and a text token present or absent.
Bodies ==
  {e \o a \o sc \o t :
     e \in {<<>>, <<TextNode(<<"notice", "ERR_NO_DATA">>)>>, <<Comment(<<"ERR_BUSY">>)>>},
     a \in {<<>>, <<Anchor(ListingHref)>>, <<Anchor(OtherHref)>>},
     sc \in {<<>>,
             <<Script(<<Assign("location.href", <<"/FJUD/">> \o ListingHref)>>)>>,
             <<Script(<<Assign("location.href", <<"/FJUD/", "Default.aspx">>)>>)>>},
     t \in {<<>>, <<TextNode(<<"query", "q=", "ab12", "0f", "done">>)>>}}

Raised == [raised |-> TRUE]

SearchReplies ==
  {Raised}
    \cup {[raised |-> FALSE, status |-> 503, redirected |-> FALSE, text |-> <<>>]}
    \cup {[raised |-> FALSE, status |-> 200, redirected |-> TRUE, text |-> pg] : pg \in Pages}
    \cup {[raised |-> FALSE, status |-> 200, redirected |-> FALSE, text |-> b] : b \in Bodies}

ListingReplies ==
  {Raised}
    \cup {[raised |-> FALSE, status |-> 503, text |-> <<>>]}
    \cup {[raised |-> FALSE, status |-> 200, text |-> pg] : pg \in Pages}

ProbeReplies ==
  {Raised}
    \cup {[raised |-> FALSE, status |-> st, length |-> n, no_data |-> nd, error |-> er] :
            st \in {200, 404}, n \in {MinProbeLength, MinProbeLength + 1},
            nd \in BOOLEAN, er \in BOOLEAN}

ContentReplies ==
  {Raised}
    \cup {[raised |-> FALSE, status |-> 404, text |-> <<>>]}
    \cup {[raised |-> FALSE, status |-> 200, text |-> t] :
            t \in {<<>>, <<" ", "doc", " ", " ", "text", "NL", "NL">>}}

Queries == {<<"law">>, <<"law", "&", "term">>}

(***************************************************************************)
(* search_judgments as a state machine.  A step is the code between two    *)
(* requests to the portal, or between two calls of the pipeline.           *)
(***************************************************************************)
VARIABLES
  variant,          \* "full" (judicial_crawler_test.py) or "simple" (..._prod.py)
  scripts_in_text,  \* whether get_text() of the installed parser reads scripts
  query,            \* query_string
  pc,               \* where search_judgments stands
  response,         \* the last response: [url, text]
  result_url,       \* the URL of the listing page, once known
  judgments,        \* the extracted list: dicts (full) or identifiers (simple)
  idx,              \* the index of the record the loop is at
  derive,           \* the locals of generate_plain_text_url_for_judgment
  result_judgments, \* the indices (references) of the records appended
  ret,              \* what search_judgments returned
  requests,         \* every request sent, in order: [kind, url]
  probes,           \* the probes of the record at hand: [url, valid]
  trace,            \* calls made: the resolver's result, the strategies tried
  unit              \* a single call of a pure function: [fn, arg, ret]

vars == <<variant, scripts_in_text, query, pc, response, result_url, judgments, idx,
          derive, result_judgments, ret, requests, probes, trace, unit>>

NoResponse == [url |-> <<>>, text |-> <<>>]
NoDerive == [mode |-> "none", id |-> <<>>, flag |-> 0, version |-> 0]
NoTrace == [search_url |-> <<>>, resolver_calls |-> 0, resolved |-> NotFound,
            succeeding |-> {},
            extract_calls |-> 0, tried |-> <<>>, extracted |-> <<>>,
            failed |-> <<>>]
Pending == [kind |-> "pending", value |-> <<>>]
ReturnNone == [kind |-> "None", value |-> <<>>]
ReturnList(list) == [kind |-> "list", value |-> list]
Idle == [fn |-> "none"]

\* direct_url = f"{self.direct_search_url}?akw={quote(query_string)}"
direct_url == base_url \o <<"qryresult.aspx", "?", "akw", "=">> \o quote(query)

Init ==
  /\ variant \in {"full", "simple"}
  /\ scripts_in_text \in BOOLEAN
  /\ query \in Queries
  /\ pc = "start"
  /\ response = NoResponse
  /\ result_url = <<>>
  /\ judgments = <<>>
  /\ idx = 0
  /\ derive = NoDerive
  /\ result_judgments = <<>>
  /\ ret = Pending
  /\ requests = <<>>
  /\ probes = <<>>
  /\ trace = NoTrace
  /\ unit = Idle

Failed(reply) == reply.raised \/ reply.status >= 400

\* The trace with one more failed request noted: its kind, its place among
\* the requests, and the record it was made for (0 for none).
NoteFailure(kind, rec) ==
  [trace EXCEPT !.failed = Append(@, [kind |-> kind, at |-> Len(requests) + 1, rec |-> rec])]

\* The except branches of search_judgments: None (full), [] (simple).
ReturnFailure ==
  /\ ret' = IF variant = "full" THEN ReturnNone ELSE ReturnList(<<>>)
  /\ pc' = "done"

\* The first request: session.get(direct_url), raise_for_status().
Search ==
  /\ pc = "start"
  /\ \E reply \in SearchReplies :
       /\ requests' = Append(requests, [kind |-> "search", url |-> direct_url])
       /\ IF Failed(reply)
          THEN ReturnFailure /\ trace' = NoteFailure("search", 0) /\ UNCHANGED response
          ELSE /\ response' = [url |-> IF reply.redirected THEN ListingUrl ELSE direct_url,
                               text |-> reply.text]
               /\ trace' = [trace EXCEPT !.search_url = response'.url]
               /\ pc' = "locate"
               /\ UNCHANGED ret
  /\ UNCHANGED <<variant, scripts_in_text, query, result_url, judgments, idx, derive,
                 result_judgments, probes, unit>>

\* The listing page is the response itself, or the resolver finds its URL.
LocateResult(resp, scripts) ==
  IF Contains(resp.url, ListingPath)
  THEN [found |-> TRUE, url |-> resp.url, by |-> "redirect"]
  ELSE extract_query_result_url(resp.text, scripts)

Locate ==
  /\ pc = "locate"
  /\ LET r == LocateResult(response, scripts_in_text)
     IN  /\ trace' = IF r.by = "redirect" THEN trace
                     ELSE [trace EXCEPT
                             !.resolver_calls = @ + 1, !.resolved = r,
                             !.succeeding = Succeeding(response.text, scripts_in_text)]
         /\ IF ~r.found
            THEN /\ ret' = IF variant = "full" THEN ReturnNone ELSE ReturnList(<<>>)
                 /\ pc' = "done"
                 /\ UNCHANGED result_url
            ELSE /\ result_url' = r.url
                 /\ pc' = IF r.by = "redirect" THEN "extract" ELSE "fetch_listing"
                 /\ UNCHANGED ret
  /\ UNCHANGED <<variant, scripts_in_text, query, response, judgments, idx, derive,
                 result_judgments, requests, probes, unit>>

\* The second request: session.get(result_url), raise_for_status().
FetchListing ==
  /\ pc = "fetch_listing"
  /\ \E reply \in ListingReplies :
       /\ requests' = Append(requests, [kind |-> "listing", url |-> result_url])
       /\ IF Failed(reply)
          THEN ReturnFailure /\ trace' = NoteFailure("listing", 0) /\ UNCHANGED response
          ELSE /\ response' = [url |-> result_url, text |-> reply.text]
               /\ pc' = "extract"
               /\ UNCHANGED <<ret, trace>>
  /\ UNCHANGED <<variant, scripts_in_text, query, result_url, judgments, idx, derive,
                 result_judgments, probes, unit>>

\* list(a_set): the elements in an order the hash seed decides.
Orders(S) == {q \in [1..Cardinality(S) -> S] : {q[i] : i \in 1..Cardinality(S)} = S}

\* `if not judgments: return None`.
C9_NoneWhenEmpty == ReturnNone

\* `if not judgments: return []` of the full variant.
NoJudgments == ReturnList(<<>>)

\* extract_judgments_from_list on the listing page.  The full variant goes on
\* to the records, the simple variant returns the identifiers.
Extract ==
  /\ pc = "extract"
  /\ IF variant = "full"
     THEN LET e == extract_judgments_from_list(response.text)
          IN  /\ judgments' = e.judgments
              /\ trace' = [trace EXCEPT !.extract_calls = @ + 1, !.tried = e.tried,
                                        !.extracted = e.judgments]
              /\ IF e.judgments = <<>>
                 THEN ret' = NoJudgments /\ pc' = "done" /\ idx' = idx
                 ELSE ret' = ret /\ pc' = "derive" /\ idx' = 1
     ELSE \E ids \in Orders(extract_judgment_ids(response.text)) :
            /\ judgments' = ids
            /\ trace' = [trace EXCEPT !.extract_calls = @ + 1, !.extracted = ids]
            /\ ret' = ReturnList(ids) /\ pc' = "done" /\ idx' = idx
  /\ UNCHANGED <<variant, scripts_in_text, query, response, result_url, derive,
                 result_judgments, requests, probes, unit>>

\* return result_judgments: the list of the appended dicts, as they now are.
Returned(list, refs) == ReturnList([i \in 1..Len(refs) |-> list[refs[i]]])

\* The loop of search_judgments moves to the next record, or returns.
NextRecord(list, refs) ==
  IF idx < Len(list)
  THEN idx' = idx + 1 /\ pc' = "derive" /\ ret' = ret
  ELSE idx' = idx /\ pc' = "done" /\ ret' = Returned(list, refs)

\* generate_plain_text_url_for_judgment reaches the synthesized
\* construction: it returns None, or goes to the first probe of version 1.
EnterSynth(rec) ==
  LET s == SynthId(rec, 1)
  IN  IF s.ok
      THEN /\ derive' = [mode |-> "synth", id |-> s.id, flag |-> 1, version |-> 1]
           /\ pc' = "probe_synth"
           /\ UNCHANGED <<judgments, idx, result_judgments, ret>>
      ELSE /\ derive' = [NoDerive EXCEPT !.mode = s.why]
           /\ NextRecord(judgments, result_judgments)
           /\ UNCHANGED <<judgments, result_judgments>>

\* The name rebound to a new dict that holds the one key.
C18_FreshDict(d, key, value) == (key :> value)

\* d[key] = value on a dict: the key is added, or its value replaced.
SetItem(d, key, value) == (key :> value) @@ d

\* judgment['plain_text_url'] = plain_text_url, on the dict of judgments.
Derived(url) ==
  /\ judgments' = [judgments EXCEPT ![idx] = SetItem(@, "plain_text_url", url)]
  /\ pc' = "fetch_content"
  /\ UNCHANGED <<idx, derive, result_judgments, ret>>

\* search_judgments calls generate_plain_text_url_for_judgment(judgment).
BeginDerive ==
  /\ pc = "derive"
  /\ probes' = <<>>
  /\ IF DirectApplies(judgments[idx])
     THEN /\ derive' = [mode |-> "direct", id |-> QueryIds(judgments[idx].url)[1],
                        flag |-> 1, version |-> 0]
          /\ pc' = "probe_direct"
          /\ UNCHANGED <<judgments, idx, result_judgments, ret>>
     ELSE EnterSynth(judgments[idx])
  /\ UNCHANGED <<variant, scripts_in_text, query, response, result_url, requests,
                 trace, unit>>

\* One probe of the direct rewrite: ispdf "1", then "0"; after both fail the
\* function goes on to the synthesized construction.
ProbeDirect ==
  /\ pc = "probe_direct"
  /\ \E reply \in ProbeReplies :
       LET url == ExportUrl(derive.id, RenderFlags[derive.flag])
       IN  /\ requests' = Append(requests, [kind |-> "probe", url |-> url])
           /\ probes' = Append(probes, [url |-> url, valid |-> ProbeValid(reply)])
           /\ trace' = IF reply.raised THEN NoteFailure("probe", idx) ELSE trace
           /\ IF ProbeValid(reply) THEN Derived(url)
              ELSE IF derive.flag < Len(RenderFlags)
                THEN /\ derive' = [derive EXCEPT !.flag = @ + 1]
                     /\ UNCHANGED <<judgments, idx, result_judgments, ret, pc>>
              ELSE EnterSynth(judgments[idx])
  /\ UNCHANGED <<variant, scripts_in_text, query, response, result_url, unit>>

\* construct_plain_text_url returning None after both flags fail.
C19_ProbeSynthNoFallback ==
  /\ pc = "probe_synth"
  /\ \E reply \in ProbeReplies :
       LET url == ExportUrl(derive.id, RenderFlags[derive.flag])
           fallback == <<>>
       IN  /\ requests' = Append(requests, [kind |-> "probe", url |-> url])
           /\ probes' = Append(probes, [url |-> url, valid |-> ProbeValid(reply)])
           /\ trace' = IF reply.raised THEN NoteFailure("probe", idx) ELSE trace
           /\ IF ProbeValid(reply) THEN Derived(url)
              ELSE IF derive.flag < Len(RenderFlags)
                THEN /\ derive' = [derive EXCEPT !.flag = @ + 1]
                     /\ UNCHANGED <<judgments, idx, result_judgments, ret, pc>>
              ELSE IF fallback # <<>> THEN Derived(fallback)
              ELSE IF derive.version < MaxVersion
                THEN /\ derive' = [derive EXCEPT
                                     !.version = @ + 1, !.flag = 1,
                                     !.id = SynthId(judgments[idx], derive.version + 1).id]
                     /\ UNCHANGED <<judgments, idx, result_judgments, ret, pc>>
              ELSE /\ NextRecord(judgments, result_judgments)
                   /\ UNCHANGED <<judgments, derive, result_judgments>>
  /\ UNCHANGED <<variant, scripts_in_text, query, response, result_url, unit>>

\* One probe of construct_plain_text_url.  After both flags fail it returns
\* the ispdf=1 URL, which the caller's `if plain_text_url:` accepts.
ProbeSynth ==
  /\ pc = "probe_synth"
  /\ \E reply \in ProbeReplies :
       LET url == ExportUrl(derive.id, RenderFlags[derive.flag])
           fallback == ExportUrl(derive.id, "1")
       IN  /\ requests' = Append(requests, [kind |-> "probe", url |-> url])
           /\ probes' = Append(probes, [url |-> url, valid |-> ProbeValid(reply)])
           /\ trace' = IF reply.raised THEN NoteFailure("probe", idx) ELSE trace
           /\ IF ProbeValid(reply) THEN Derived(url)
              ELSE IF derive.flag < Len(RenderFlags)
                THEN /\ derive' = [derive EXCEPT !.flag = @ + 1]
                     /\ UNCHANGED <<judgments, idx, result_judgments, ret, pc>>
              ELSE IF fallback # <<>> THEN Derived(fallback)
              ELSE IF derive.version < MaxVersion
                THEN /\ derive' = [derive EXCEPT
                                     !.version = @ + 1, !.flag = 1,
                                     !.id = SynthId(judgments[idx], derive.version + 1).id]
                     /\ UNCHANGED <<judgments, idx, result_judgments, ret, pc>>
              ELSE /\ NextRecord(judgments, result_judgments)
                   /\ UNCHANGED <<judgments, derive, result_judgments>>
  /\ UNCHANGED <<variant, scripts_in_text, query, response, result_url, unit>>

\* judgment['content'] = fetch_judgment_content(plain_text_url), then
\* result_judgments.append(judgment).
FetchContent ==
  /\ pc = "fetch_content"
  /\ \E reply \in ContentReplies :
       /\ requests' = Append(requests, [kind |-> "content",
                                        url |-> judgments[idx].plain_text_url])
       /\ judgments' = [judgments EXCEPT
                          ![idx] = SetItem(@, "content", fetch_judgment_content(reply))]
       /\ result_judgments' = Append(result_judgments, idx)
       /\ trace' = IF Failed(reply) THEN NoteFailure("content", idx) ELSE trace
       /\ NextRecord(judgments', result_judgments')
  /\ UNCHANGED <<variant, scripts_in_text, query, response, result_url, derive,
                 probes, unit>>

Next ==
  \/ Search
  \/ Locate
  \/ FetchListing
  \/ Extract
  \/ BeginDerive
  \/ ProbeDirect
  \/ ProbeSynth
  \/ FetchContent

Spec == Init /\ [][Next]_vars

(***************************************************************************)
(* Single calls of the pure functions.  The pipeline stands idle; `unit`   *)
(* holds the call: its argument and, once made, what it returned.          *)
(***************************************************************************)
PipelineIdle ==
  /\ query = <<>>
  /\ pc = "unit"
  /\ response = NoResponse
  /\ result_url = <<>>
  /\ judgments = <<>>
  /\ idx = 0
  /\ derive = NoDerive
  /\ result_judgments = <<>>
  /\ ret = Pending
  /\ requests = <<>>
  /\ probes = <<>>
  /\ trace = NoTrace

Calling(fn, arg) == [fn |-> fn, arg |-> arg, done |-> FALSE, ret |-> <<>>]

Return(fn, value) ==
  /\ unit.fn = fn
  /\ ~unit.done
  /\ unit' = [unit EXCEPT !.done = TRUE, !.ret = value]
  /\ UNCHANGED <<variant, scripts_in_text, query, pc, response, result_url, judgments,
                 idx, derive, result_judgments, ret, requests, probes, trace>>

\* The sequences over S of length 0..n.
SeqsUpTo(S, n) == UNION {[1..m -> S] : m \in 0..n}

\* --- extract_query_result_url on a body ---
MaxBodyLen == 2

ErrorHref == <<"qryresultlst.aspx", "?", "q=", "0f", "&", "msg=", "ERR_SYSTEM">>

BodyElements == {
  TextNode(<<"notice", "ERR_NO_DATA">>),
  TextNode(<<"ERR_INVALID_TERMS">>),
  Comment(<<"ERR_BUSY">>),
  Anchor(ErrorHref),
  Anchor(ListingHref),
  Anchor(OtherHref),
  Script(<<Assign("location.href", <<"/FJUD/">> \o ListingHref)>>),
  Script(<<Assign("window.location", <<"/FJUD/", "Default.aspx">>),
           Assign("window.location", ListingHref)>>),
  TextNode(<<"query", "q=", "ab12", "0f", "done">>),
  TextNode(<<"hello">>)
}

InitResolver ==
  /\ PipelineIdle
  /\ variant \in {"full", "simple"}
  /\ scripts_in_text \in BOOLEAN
  /\ unit \in {Calling("extract_query_result_url", b) : b \in SeqsUpTo(BodyElements, MaxBodyLen)}

CallResolver ==
  Return("extract_query_result_url", extract_query_result_url(unit.arg, scripts_in_text))

SpecResolver == InitResolver /\ [][CallResolver]_vars

\* --- extract_judgments_from_list on a listing page ---
\* The texts an identifier is printed in: a lead, a court (or none), the year,
\* type and number in the portal's or the template's spacing, and a tail.
IdTexts ==
  {lead \o court \o <<" ">> \o body \o tail :
     lead \in {<<>>, <<"1", ".", " ">>, <<":", " ">>},
     court \in {TaipeiCourt, <<>>},
     body \in {<<"1", "0", "8", " ", "nian", "du", "min", "zi", "di4", " ", "1", "0", "0",
                 " ", "hao">>,
               <<"1", "0", "8", " ", "nian", "du", " ", "min", "zi", " ", "di4", " ",
                 "1", "0", "0", " ", "hao">>},
     tail \in {<<>>, Annotation, <<" ">> \o Date1080501}}

\* The layouts a text stands in: a cell of the gvMain table, a cell of a
\* two-column table known by its header, a div.jud block, a paragraph, a
\* div.jud block after a gvMain table that has no data row.
PagesOf(text) == {
  ResultPage(<<DataRow(<<Plain(text)>>, Date1080501)>>),
  <<[tag |-> "table", id |-> "", rows |-> <<HeaderRow, <<Cell(<<"1">>), Cell(text)>>>>]>>,
  <<[tag |-> "div", cls |-> "jud", pieces |-> <<Plain(text)>>]>>,
  <<[tag |-> "p", cls |-> "", pieces |-> <<Plain(text)>>]>>,
  ResultPage(<<>>) \o <<[tag |-> "div", cls |-> "jud", pieces |-> <<Plain(text)>>]>>
}

ExtractPages == UNION {PagesOf(text) : text \in IdTexts}

InitExtract ==
  /\ PipelineIdle
  /\ variant \in {"full", "simple"}
  /\ scripts_in_text = FALSE
  /\ unit \in {Calling("extract_judgments_from_list", pg) : pg \in ExtractPages}

\* The full variant returns its records; the simple one its identifiers, in
\* the order list(set) gives them.
CallExtract ==
  IF variant = "full"
  THEN Return("extract_judgments_from_list", extract_judgments_from_list(unit.arg))
  ELSE \E ids \in Orders(extract_judgment_ids(unit.arg)) :
         Return("extract_judgments_from_list", [judgments |-> ids, tried |-> <<"simple">>])

SpecExtract == InitExtract /\ [][CallExtract]_vars

\* --- get_court_code over a sequence of calls ---
MaxCalls == 2

\* The keys of the table, and names that are none of them: a part of a key, a
\* key with a division after it, a summary court of a keyed district, a court
\* the table does not know, the empty name.
CourtNames ==
  {court_code_map[k].name : k \in 1..Len(court_code_map)}
    \cup {<<"tai", "bei", "di", "fang", "fa", "yuan">>,
          TaipeiCourt \o <<"min", "shi", "ting">>,
          <<"tai", "wan", "gao", "xiong", "feng", "shan", "jian", "yi", "ting">>,
          <<"tai", "wan", "tai", "dong", "di", "fang", "fa", "yuan",
            "tai", "dong", "jian", "yi", "ting">>,
          SupremeCourt,
          <<>>}

InitCourt ==
  /\ PipelineIdle
  /\ variant = "full"
  /\ scripts_in_text = FALSE
  /\ unit = Calling("get_court_code", <<>>)

\* One more call; unit.ret keeps each call's name and result, in order.
CallCourt ==
  /\ unit.fn = "get_court_code"
  /\ Len(unit.ret) < MaxCalls
  /\ \E name \in CourtNames :
       unit' = [unit EXCEPT !.arg = name,
                            !.ret = Append(@, [name |-> name, result |-> get_court_code(name)])]
  /\ UNCHANGED <<variant, scripts_in_text, query, pc, response, result_url, judgments,
                 idx, derive, result_judgments, ret, requests, probes, trace>>

SpecCourt == InitCourt /\ [][CallCourt]_vars

\* --- convert_roc_date_to_ad on a date text ---
MaxParts == 4

DateParts == {<<"1", "1", "1">>, <<"1", "0", "0">>, <<"0", "2">>, <<"1", "5">>, <<"1">>,
              <<"a", "b", "c">>, <<>>, <<"-", "3">>}

\* ".".join(parts)
RECURSIVE JoinDots(_)
JoinDots(parts) ==
  IF Len(parts) = 1 THEN parts[1]
  ELSE parts[1] \o <<".">> \o JoinDots(Tail(parts))

DateTexts == {JoinDots(ps) : ps \in SeqsUpTo(DateParts, MaxParts) \ {<<>>}}

InitDate ==
  /\ PipelineIdle
  /\ variant = "full"
  /\ scripts_in_text = FALSE
  /\ unit \in {Calling("convert_roc_date_to_ad", t) : t \in DateTexts}

CallDate == Return("convert_roc_date_to_ad", convert_roc_date_to_ad(unit.arg))

SpecDate == InitDate /\ [][CallDate]_vars

(***************************************************************************)
(* C1.  The error phrases end the resolution.                              *)
(***************************************************************************)
C1_Phrases == {"ERR_INVALID_TERMS", "ERR_NO_DATA", "ERR_BUSY", "ERR_SYSTEM"}

\* The element holds an error phrase: in its text, in a comment, in an
\* attribute or in a script.
C1_Holds(el) ==
  CASE el.tag = "a" -> \E i \in 1..Len(el.href) : el.href[i] \in C1_Phrases
    [] el.tag = "script" ->
         \E j \in 1..Len(el.stmts) :
           \E i \in 1..Len(el.stmts[j].target) : el.stmts[j].target[i] \in C1_Phrases
    [] OTHER -> \E i \in 1..Len(el.text) : el.text[i] \in C1_Phrases

C1_Resolved == unit.fn = "extract_query_result_url" /\ unit.done

\* C1: whenever the body given to extract_query_result_url holds one of the
\* four error phrases anywhere, the function returns None, whatever link,
\* script redirect or q= token the body holds as well.
C1_ErrorPhraseReturnsNotFound ==
  (C1_Resolved /\ \E k \in 1..Len(unit.arg) : C1_Holds(unit.arg[k]))
    => ~unit.ret.found /\ unit.ret.url = <<>>

\* A body with an error phrase in a comment and a well-formed listing link
\* has been resolved to None.
C1_Witness ==
  /\ C1_Resolved
  /\ \E k \in 1..Len(unit.arg) : unit.arg[k] = Comment(<<"ERR_BUSY">>)
  /\ \E k \in 1..Len(unit.arg) : unit.arg[k] = Anchor(ListingHref)
  /\ ~unit.ret.found

(***************************************************************************)
(* C2.  The order in which the listing page is located.                    *)
(***************************************************************************)
C2_Redirected == Contains(trace.search_url, <<"qryresultlst.aspx">>)

\* The step the order of the claim picks among those that would succeed.
C2_First(S) ==
  IF "error" \in S THEN "error"
  ELSE IF "link" \in S THEN "link"
  ELSE IF "script" \in S THEN "script"
  ELSE IF "text" \in S THEN "text"
  ELSE "none"

C2_TextUrlPrefix ==
  <<"https://judgment.judicial.gov.tw", "/FJUD/", "qryresultlst.aspx", "?",
    "ty=SIMJUDBOOK", "&", "q=">>

\* C2: a search response whose URL is the listing endpoint is used as it is,
\* without a resolver call and without a listing request; otherwise the
\* resolver returns by the first of error phrase, hyperlink, script redirect,
\* text token that succeeds, a lower step only when every higher one failed,
\* and None when none succeeds; the text token's URL is
\* <base>qryresultlst.aspx?ty=SIMJUDBOOK&q=<token>.
C2_PriorityOrder ==
  /\ trace.resolver_calls <= 1
  /\ (C2_Redirected /\ pc \notin {"start", "locate"}) =>
       /\ trace.resolver_calls = 0
       /\ result_url = trace.search_url
       /\ \A i \in 1..Len(requests) : requests[i].kind # "listing"
  /\ trace.resolver_calls = 1 =>
       /\ ~C2_Redirected
       /\ trace.resolved.by = C2_First(trace.succeeding)
       /\ trace.resolved.found <=> trace.resolved.by \in {"link", "script", "text"}
       /\ trace.resolved.found => result_url = trace.resolved.url
       /\ ~trace.resolved.found => ret.kind # "pending" /\ result_url = <<>>
       /\ trace.resolved.by = "text" =>
            /\ SubSeq(trace.resolved.url, 1, Len(C2_TextUrlPrefix)) = C2_TextUrlPrefix
            /\ Len(trace.resolved.url) > Len(C2_TextUrlPrefix)
            /\ \A i \in (Len(C2_TextUrlPrefix) + 1)..Len(trace.resolved.url) :
                 trace.resolved.url[i] \in {"ab12", "0f"}

\* The resolver returned the hyperlink of a body that also holds a script
\* redirect and a text token, and the listing page was then requested.
C2_Witness ==
  /\ trace.resolver_calls = 1
  /\ trace.resolved.by = "link"
  /\ {"script", "text"} \subseteq trace.succeeding
  /\ \E i \in 1..Len(requests) : requests[i].kind = "listing"

\* A redirected search went on to the extraction with one request sent.
C2_WitnessRedirect ==
  /\ C2_Redirected
  /\ pc = "done"
  /\ trace.extract_calls = 1
  /\ Len(requests) = 1

(***************************************************************************)
(* C3.  The synthesized construction and its versions.                     *)
(***************************************************************************)
C3_SynthReturned == variant = "full" /\ pc = "fetch_content" /\ derive.mode = "synth"

\* C3: a URL returned by the synthesized construction is the first candidate,
\* in the order version 1..5 and within a version ispdf "1" then "0", whose
\* probe validated: it was probed valid, and no probe before it was.
C3_ReturnsFirstValidating ==
  C3_SynthReturned =>
    \E i \in 1..Len(probes) :
      /\ probes[i].valid
      /\ probes[i].url = judgments[idx].plain_text_url
      /\ \A j \in 1..(i - 1) : ~probes[j].valid

\* Both probes of version 1 failed and the construction returned a URL, with
\* no version after 1 probed.
C3_Witness ==
  /\ C3_SynthReturned
  /\ Len(probes) = 2
  /\ ~probes[1].valid /\ ~probes[2].valid
  /\ judgments[idx].plain_text_url = probes[1].url

(***************************************************************************)
(* C4.  The direct rewrite of a source URL.                                *)
(***************************************************************************)
\* The text after "id=" in the URL, to the next "&" or the end.
C4_Token(url) ==
  LET at == Min({p \in 2..(Len(url) - 1) :
                   url[p] = "id" /\ url[p + 1] = "=" /\ url[p - 1] \in {"?", "&"}})
      stop == Min({e \in (at + 2)..(Len(url) + 1) : e = Len(url) + 1 \/ url[e] = "&"})
  IN  SubSeq(url, at + 2, stop - 1)

C4_HasToken(url) ==
  \E p \in 2..(Len(url) - 2) :
    url[p] = "id" /\ url[p + 1] = "=" /\ url[p - 1] \in {"?", "&"} /\ url[p + 2] # "&"

C4_Export(id, flag) ==
  <<"https://judgment.judicial.gov.tw", "/EXPORTFILE/", "reformat.aspx", "?",
    "type", "=", "JD", "&", "id", "=">> \o id \o <<"&", "lawpara", "=", "&", "ispdf", "=", flag>>

C4_Returned ==
  {i \in 1..Len(judgments) :
     /\ variant = "full"
     /\ "plain_text_url" \in DOMAIN judgments[i]
     /\ C4_HasToken(judgments[i].url)}

\* C4 as stated: every URL returned for a record whose source URL carries
\* id=<token> has <token>, character for character, as its id parameter and
\* differs from the other candidate in the ispdf flag alone.
C4_KeepsTokenVerbatim ==
  \A i \in C4_Returned :
    \E flag \in {"1", "0"} :
      judgments[i].plain_text_url = C4_Export(C4_Token(judgments[i].url), flag)

\* The token with its percent-escapes decoded.
C4_Decoded(token) == Replace(Replace(token, <<"%", "2c">>, <<",">>), <<"%", "2C">>, <<",">>)

C4_DirectUrls(url) == [f \in 1..2 |-> C4_Export(C4_Decoded(C4_Token(url)), <<"1", "0">>[f])]

\* C4 amended: for a record whose source URL is a data.aspx URL carrying
\* id=<token>, the direct rewrite probes the export URL with the decoded
\* token as id, ispdf "1" then "0", and a URL it returns is the one of these
\* that validated; when both fail the function goes on to the synthesized
\* construction, whose URL is neither.
C4_DirectRewriteKeepsDecodedToken ==
  (/\ variant = "full"
   /\ pc = "fetch_content"
   /\ C4_HasToken(judgments[idx].url)
   /\ Contains(judgments[idx].url, <<"/FJUD/", "data.aspx">>)) =>
    LET d == C4_DirectUrls(judgments[idx].url)
        u == judgments[idx].plain_text_url
    IN  /\ Len(probes) >= 1 /\ probes[1].url = d[1]
        /\ ~probes[1].valid => Len(probes) >= 2 /\ probes[2].url = d[2]
        /\ \/ u = d[1] /\ probes = <<[url |-> d[1], valid |-> TRUE]>>
           \/ u = d[2] /\ probes = <<[url |-> d[1], valid |-> FALSE],
                                     [url |-> d[2], valid |-> TRUE]>>
           \/ /\ u \notin {d[1], d[2]}
              /\ Len(probes) > 2
              /\ ~probes[1].valid /\ ~probes[2].valid
              /\ derive.mode = "synth"

\* The direct rewrite returned the ispdf=0 URL of a token with an escape.
C4_Witness ==
  /\ variant = "full"
  /\ pc = "fetch_content"
  /\ C4_HasToken(judgments[idx].url)
  /\ C4_Token(judgments[idx].url) = <<"T", "P", "D", "V", "%", "2c", "1">>
  /\ judgments[idx].plain_text_url
       = C4_Export(<<"T", "P", "D", "V", ",", "1">>, "0")
  /\ Len(probes) = 2

(***************************************************************************)
(* C5.  Round trip of an emitted identifier through parse_judgment_id.    *)
(***************************************************************************)
\* The identifiers a finished call of the extractor has emitted.
C5_Emitted ==
  IF unit.fn = "extract_judgments_from_list" /\ unit.done
  THEN IF variant = "full"
       THEN {unit.ret.judgments[i].id : i \in 1..Len(unit.ret.judgments)}
       ELSE {unit.ret.judgments[i] : i \in 1..Len(unit.ret.judgments)}
  ELSE {}

\* "<court> <year> nian du <case-type>zi di4 <number> hao" over four parts.
C5_Compose(court, year, case_type, number) ==
  court \o <<" ">> \o year \o <<" ", "nian", "du", " ">> \o case_type
    \o <<"zi", " ", "di4", " ">> \o number \o <<" ", "hao">>

C5_RoundTrips(id, g) ==
  g.ok /\ C5_Compose(g.court_name, g.year, g.case_type, g.case_number) = id

\* C5: every identifier emitted by extract_judgments_from_list, through any
\* strategy, is parsed by parse_judgment_id, and its four results put in the
\* template give the identifier back unchanged.
C5_RoundTrip ==
  \A id \in C5_Emitted : C5_RoundTrips(id, parse_judgment_id(id))

\* A call has emitted an identifier that the round trip gives back.
C5_Witness ==
  \E id \in C5_Emitted : C5_RoundTrips(id, parse_judgment_id(id))

(***************************************************************************)
(* C6.  Emitted identifiers are recomposed, never the cell text.          *)
(***************************************************************************)
C6_Digits(id, from, to) == from <= to /\ \A i \in from..to : id[i] \in DigitChars

\* id reads "<court> <digits> nian du <type>zi di4 <digits> hao" in the
\* template's spacing.
C6_IsTemplate(id) ==
  \E p \in 1..Len(id) : \E q \in (p + 4)..Len(id) :
    /\ HasAt(id, p, <<" ", "nian", "du", " ">>)
    /\ HasAt(id, q, <<"zi", " ", "di4", " ">>)
    /\ C6_Digits(id, q + 4, Len(id) - 2)
    /\ id[Len(id) - 1] = " " /\ id[Len(id)] = "hao"
    /\ \E y \in 2..(p - 1) : id[y - 1] = " " /\ C6_Digits(id, y, p - 1)

\* The table whose data row reads 1, "<Taipei court> 108 nian du min zi di4
\* 100 hao (li shi pan jue)", 108.05.01, qin quan xing wei.
C6_ExamplePage == ResultPage(<<DataRow(<<Plain(TaipeiId \o Annotation)>>, Date1080501)>>)

C6_ExampleId == C5_Compose(TaipeiCourt, Chars108, <<"min">>, Chars100)

C6_ExampleResult ==
  IF variant = "full"
  THEN unit.ret.judgments = <<JudgmentRecord(C6_ExampleId, Date1080501, TortCase, <<>>)>>
  ELSE unit.ret.judgments = <<C6_ExampleId>>

\* C6: in every strategy, the table strategy included, the emitted identifier
\* is the template over the four captured groups and never the source text
\* passed through; the example row gives exactly one record, with the
\* recomposed identifier, its date and case type, and no annotation.
C6_AlwaysRecomposed ==
  /\ \A id \in C5_Emitted : C6_IsTemplate(id)
  /\ (unit.fn = "extract_judgments_from_list" /\ unit.done /\ unit.arg = C6_ExamplePage)
       => C6_ExampleResult

\* The example row has been extracted by the table strategy.
C6_Witness ==
  /\ unit.fn = "extract_judgments_from_list" /\ unit.done
  /\ unit.arg = C6_ExamplePage
  /\ variant = "full"
  /\ unit.ret.tried = <<"table">>
  /\ Len(unit.ret.judgments) = 1

(***************************************************************************)
(* C7.  get_court_code is deterministic and exact keys come first.        *)
(***************************************************************************)
C7_Calls == IF unit.fn = "get_court_code" THEN unit.ret ELSE <<>>

C8_Done == unit.fn = "convert_roc_date_to_ad" /\ unit.done

C8_IsNumber(ds) == ds # <<>> /\ \A i \in 1..Len(ds) : ds[i] \in DigitChars

\* The number a digit string writes, first digit first.
RECURSIVE C8_Num(_, _)
C8_Num(ds, acc) ==
  IF ds = <<>> THEN acc
  ELSE C8_Num(Tail(ds),
              10 * acc + (CHOOSE v \in 0..9 :
                            <<"0", "1", "2", "3", "4", "5", "6", "7", "8", "9">>[v + 1] = Head(ds)))

RECURSIVE C8_Str(_)
C8_Str(n) ==
  LET last == <<"0", "1", "2", "3", "4", "5", "6", "7", "8", "9">>[(n % 10) + 1]
  IN  IF n < 10 THEN <<last>> ELSE Append(C8_Str(n \div 10), last)

C8_Pad2(n) == IF n < 10 THEN <<"0">> \o C8_Str(n) ELSE C8_Str(n)

C8_Dots == {i \in 1..Len(unit.arg) : unit.arg[i] = "."}

C8_Y == SubSeq(unit.arg, 1, Min(C8_Dots) - 1)
C8_M == SubSeq(unit.arg, Min(C8_Dots) + 1, Max(C8_Dots) - 1)
C8_D == SubSeq(unit.arg, Max(C8_Dots) + 1, Len(unit.arg))

\* A component int() has no reading of: empty, or holding a letter.
C8_NotNumeric(ds) == ds = <<>> \/ \E i \in 1..Len(ds) : ds[i] \in {"a", "b", "c"}

C8_Text(y, m, d) == y \o <<".">> \o m \o <<".">> \o d

C9_NoRecords == trace.extract_calls = 1 /\ trace.extracted = <<>>

\* C9: when the listing page yields no record after every extraction
\* strategy, search_judgments returns an empty sequence, never None.
C9_EmptyListNotNone ==
  C9_NoRecords => pc = "done" /\ ret = [kind |-> "list", value |-> <<>>]

\* The full variant went through the table, then the raw-text strategy, found
\* nothing, and has returned.
C9_Witness ==
  /\ variant = "full"
  /\ C9_NoRecords
  /\ trace.tried = <<"table", "raw">>
  /\ Len(requests) = 2
  /\ pc = "done"

(***************************************************************************)
(* C10.  A terminal no-result page gives an empty sequence.               *)
(***************************************************************************)
\* The search response was not redirected to the listing endpoint and the
\* resolver ended on one of the error phrases.
C10_NoResultPage == trace.resolver_calls = 1 /\ trace.resolved.by = "error"

\* C10: when the search response is a terminal no-result page,
\* search_judgments returns an empty sequence, not None, in every variant.
C10_NoResultGivesEmptyList ==
  C10_NoResultPage => pc = "done" /\ ret = [kind |-> "list", value |-> <<>>]

\* The full variant has returned from a no-result page.
C10_Witness ==
  /\ variant = "full"
  /\ C10_NoResultPage
  /\ pc = "done"
  /\ Len(requests) = 1

(***************************************************************************)
(* C11.  Transport failures are caught where they happen.                 *)
(***************************************************************************)
C11_Failures(kind) == {k \in 1..Len(trace.failed) : trace.failed[k].kind = kind}

C11_EmptyResult == IF variant = "full" THEN ReturnNone ELSE ReturnList(<<>>)

\* A failed search or listing request ends search_judgments with its empty
\* result, and no request follows it.
C11_RequestFailureEnds ==
  \A k \in C11_Failures("search") \cup C11_Failures("listing") :
    /\ pc = "done"
    /\ ret = C11_EmptyResult
    /\ Len(requests) = trace.failed[k].at

\* A probe that raised counts as invalid, and the search goes on.
C11_ProbeFailureGoesOn ==
  \A k \in C11_Failures("probe") :
    /\ ret.kind # "None"
    /\ (Len(requests) = trace.failed[k].at /\ probes # <<>>) => ~probes[Len(probes)].valid

C11_ContentOf(k) == judgments[trace.failed[k].rec].content

C11_ContentFailureKept(k) ==
  /\ ret.kind # "None"
  /\ \E i \in 1..Len(result_judgments) : result_judgments[i] = trace.failed[k].rec

\* C11: a transport failure at the search request, the listing request, a
\* probe or the content fetch is caught at that operation and becomes its
\* empty result; nothing escapes search_judgments, and a failed content
\* fetch leaves the record with empty content.
C11_FailuresGiveEmptyResults ==
  /\ C11_RequestFailureEnds
  /\ C11_ProbeFailureGoesOn
  /\ \A k \in C11_Failures("content") :
       C11_ContentFailureKept(k) /\ C11_ContentOf(k) = <<>>

\* C11 amended: as C11, but a failed content fetch leaves the record, which
\* is kept, with the failure message as its content.
C11_ContentFailureGivesMessage ==
  /\ C11_RequestFailureEnds
  /\ C11_ProbeFailureGoesOn
  /\ \A k \in C11_Failures("content") :
       C11_ContentFailureKept(k) /\ C11_ContentOf(k) = <<"FETCH_FAILED_MESSAGE">>

\* A probe raised, the next probe validated, the content fetch failed, and
\* the search has returned its list.
C11_Witness ==
  /\ C11_Failures("probe") # {}
  /\ C11_Failures("content") # {}
  /\ pc = "done"
  /\ ret.kind = "list"
  /\ Len(ret.value) = 1
  /\ ret.value[1].content = <<"FETCH_FAILED_MESSAGE">>

(***************************************************************************)
(* C12.  A record whose derivation fails stays in the result.             *)
(***************************************************************************)
C12_Returned == variant = "full" /\ pc = "done" /\ trace.extract_calls = 1 /\ ret.kind = "list"

\* C12: in the full variant a record whose plain-text URL derivation fails
\* is kept, without content, in the sequence search_judgments returns, and
\* the records after it are still processed.
C12_FailedRecordRetained ==
  C12_Returned =>
    /\ Len(ret.value) = Len(trace.extracted)
    /\ \A i \in 1..Len(ret.value) :
         /\ ret.value[i].id = trace.extracted[i].id
         /\ "plain_text_url" \notin DOMAIN ret.value[i] => "content" \notin DOMAIN ret.value[i]

\* Of two extracted records the first had a date that does not convert; the
\* second was processed and is the only one returned.
C12_Witness ==
  /\ C12_Returned
  /\ Len(trace.extracted) = 2
  /\ trace.extracted[1].date = <<"a", "b", "c">>
  /\ Len(ret.value) = 1
  /\ ret.value[1].date = Date1080501
  /\ "content" \in DOMAIN ret.value[1]

(***************************************************************************)
(* C13.  The order of the extraction strategies.                          *)
(***************************************************************************)
C13_Extracted == variant = "full" /\ unit.fn = "extract_judgments_from_list" /\ unit.done

C13_Position(strategy) ==
  IF \E k \in 1..Len(unit.ret.tried) : unit.ret.tried[k] = strategy
  THEN CHOOSE k \in 1..Len(unit.ret.tried) : unit.ret.tried[k] = strategy
  ELSE 0

C13_HasTable == \E k \in 1..Len(unit.arg) : IsResultTable(unit.arg[k])

\* The records the table strategy gives on the page (none without a table).
C13_FromTable ==
  IF C13_HasTable THEN TableRecords(unit.arg[ResultTable(unit.arg)]) ELSE <<>>

\* C13: the strategies run in the order table, block, raw text and stop at
\* the first that yields a record; the block strategy is tried when no table
\* matched and also when the matched table yielded nothing, and the raw-text
\* strategy only after the block strategy yielded nothing too.
C13_TableBlockRaw ==
  C13_Extracted =>
    /\ C13_FromTable = <<>> => C13_Position("block") > 0
    /\ C13_Position("raw") > 0 =>
         /\ C13_Position("block") > 0
         /\ C13_Position("block") < C13_Position("raw")
         /\ BlockRecords(unit.arg) = <<>>

\* C13 amended: the table strategy runs when a listing table matched and the
\* block strategy only when none did; the raw-text strategy runs after the
\* one of them that ran yielded nothing; the records returned are those of
\* the last strategy run.
C13_TableElseBlockThenRaw ==
  C13_Extracted =>
    /\ Len(unit.ret.tried) \in {1, 2}
    /\ unit.ret.tried[1] = (IF C13_HasTable THEN "table" ELSE "block")
    /\ LET first == IF C13_HasTable THEN C13_FromTable ELSE BlockRecords(unit.arg)
       IN  IF first # <<>>
           THEN unit.ret.tried = <<unit.ret.tried[1]>> /\ unit.ret.judgments = first
           ELSE /\ unit.ret.tried = <<unit.ret.tried[1], "raw">>
                /\ unit.ret.judgments = RawRecords(unit.arg)

\* A table with no data row matched, a div.jud block that holds an
\* identifier stood after it, and the records came from the raw text.
C13_Witness ==
  /\ C13_Extracted
  /\ Len(unit.arg) = 2
  /\ C13_HasTable
  /\ BlockRecords(unit.arg) # <<>>
  /\ unit.ret.tried = <<"table", "raw">>
  /\ unit.ret.judgments # <<>>

(***************************************************************************)
(* C14.  The substring step takes the first entry in table order.         *)
(***************************************************************************)
\* a is found in b, as consecutive characters.
C14_In(a, b) == \E p \in 1..(Len(b) - Len(a) + 1) : SubSeq(b, p, p + Len(a) - 1) = a

C14_IsKey(name) == \E k \in 1..Len(court_code_map) : court_code_map[k].name = name

C14_Matching(name) ==
  {k \in 1..Len(court_code_map) :
     C14_In(court_code_map[k].name, name) \/ C14_In(name, court_code_map[k].name)}

C14_TaitungSummary ==
  <<"tai", "wan", "tai", "dong", "di", "fang", "fa", "yuan", "tai", "dong", "jian", "yi", "ting">>

\* C14: for a name that is no key of the table, get_court_code returns the
\* code of the first entry, in the table's order, whose name holds the input
\* or is held by it; a later entry that matches as well is never chosen.
C14_FirstMatchInTableOrder ==
  \A i \in 1..Len(C7_Calls) :
    LET name == C7_Calls[i].name
        hits == C14_Matching(name)
    IN  (~C14_IsKey(name) /\ hits # {}) =>
          /\ \E k \in hits :
               /\ \A j \in hits : k <= j
               /\ C7_Calls[i].result.code = court_code_map[k].code
          /\ name = C14_TaitungSummary => C7_Calls[i].result.code = <<"T", "T", "D", "V">>

\* The name of a summary court that holds the district court's entry and,
\* further down the table, the summary court's own entry, has been resolved.
C14_Witness ==
  \E i \in 1..Len(C7_Calls) :
    /\ C7_Calls[i].name = C14_TaitungSummary
    /\ Cardinality({court_code_map[k].code : k \in C14_Matching(C14_TaitungSummary)}) = 2
    /\ C7_Calls[i].result.step = "substring"

(***************************************************************************)
(* C15.  Probes are serial and never retried.                             *)
(***************************************************************************)
C15_Probing == pc \in {"probe_direct", "probe_synth"}

\* The last request was a probe that raised.
C15_JustRaised ==
  \E k \in 1..Len(trace.failed) :
    trace.failed[k].kind = "probe" /\ trace.failed[k].at = Len(requests)

\* C15: within the derivation of one record every candidate URL is requested
\* at most once; a probe that raises is invalid and the next candidate is
\* tried; no probe follows a probe that validated; probes go one at a time,
\* each request being the probe just recorded.
C15_SerialNoRetry ==
  /\ \A i, j \in 1..Len(probes) : i # j => probes[i].url # probes[j].url
  /\ \A i \in 1..(Len(probes) - 1) : ~probes[i].valid
  /\ C15_Probing => \A i \in 1..Len(probes) : ~probes[i].valid
  /\ (C15_JustRaised /\ probes # <<>>) =>
       /\ ~probes[Len(probes)].valid
       /\ C15_Probing \/ Len(probes) \in {2, 4}
  /\ (C15_Probing /\ probes # <<>>) =>
       requests[Len(requests)] = [kind |-> "probe", url |-> probes[Len(probes)].url]
  /\ Len(probes) <= 4

\* Both direct probes and then the first synthesized probe raised or were
\* invalid, and the fourth candidate is about to be requested.
C15_Witness ==
  /\ pc = "probe_synth"
  /\ Len(probes) = 3
  /\ C15_JustRaised
  /\ Cardinality({probes[i].url : i \in 1..3}) = 3

(***************************************************************************)
(* C16.  The script step returns the first redirect to the listing.       *)
(***************************************************************************)
C16_RedirectNames == {"window.location.href", "location.href", "window.location"}

\* <<k, j>>: statement j of script k assigns a redirect whose target holds
\* the listing path.
C16_ListingRedirects(body) ==
  {h \in (1..Len(body)) \X (1..2) :
     /\ body[h[1]].tag = "script"
     /\ h[2] <= Len(body[h[1]].stmts)
     /\ body[h[1]].stmts[h[2]].lhs \in C16_RedirectNames
     /\ \E p \in 1..Len(body[h[1]].stmts[h[2]].target) :
          body[h[1]].stmts[h[2]].target[p] = "qryresultlst.aspx"}

C16_FirstTarget(body) ==
  LET h == CHOOSE h \in C16_ListingRedirects(body) :
             \A g \in C16_ListingRedirects(body) :
               h[1] < g[1] \/ (h[1] = g[1] /\ h[2] <= g[2])
  IN  body[h[1]].stmts[h[2]].target

C16_Absolute(target) ==
  IF target[1] = "https://judgment.judicial.gov.tw" THEN target
  ELSE IF target[1] = "/FJUD/" THEN <<"https://judgment.judicial.gov.tw">> \o target
  ELSE <<"https://judgment.judicial.gov.tw", "/FJUD/">> \o target

C16_ScriptCase ==
  /\ unit.fn = "extract_query_result_url" /\ unit.done
  /\ ~HasErrorPhrase(unit.arg)
  /\ LinkHits(unit.arg) = {}
  /\ C16_ListingRedirects(unit.arg) # {}

\* C16: with no error phrase and no matching hyperlink, when some script
\* holds a redirect assignment whose target holds the listing path,
\* extract_query_result_url returns the first such target as an absolute
\* URL, even when an earlier redirect of the same or an earlier script
\* targets another page.
C16_FirstListingRedirect ==
  C16_ScriptCase =>
    /\ unit.ret.found
    /\ unit.ret.url = C16_Absolute(C16_FirstTarget(unit.arg))

\* The only script redirects to Default.aspx and then to the listing, and
\* the listing redirect was not returned.
C16_Witness ==
  /\ C16_ScriptCase
  /\ Len(unit.arg) = 1
  /\ Len(unit.arg[1].stmts) = 2
  /\ unit.ret.by # "script"

(***************************************************************************)
(* C17.  A converted date is eight digits.                                *)
(***************************************************************************)
\* C17: every result of convert_roc_date_to_ad that is not a failure is a
\* string of exactly 8 characters, all of them decimal digits, whatever
\* accepted input it came from (components of several digits, zero, signed).
C17_EightDigits ==
  (C8_Done /\ unit.ret.ok) =>
    /\ Len(unit.ret.date) = 8
    /\ \A i \in 1..Len(unit.ret.date) : unit.ret.date[i] \in DigitChars

\* "100.111.-3" was accepted and converted.
C17_Witness ==
  /\ C8_Done
  /\ unit.arg = C8_Text(<<"1", "0", "0">>, <<"1", "1", "1">>, <<"-", "3">>)
  /\ unit.ret.ok
  /\ unit.ret.date = <<"2", "0", "1", "1", "1", "1", "1", "-", "3">>

(***************************************************************************)
(* C18.  What search_judgments does to the extracted records.             *)
(***************************************************************************)
C18_Extracted == variant = "full" /\ trace.extract_calls = 1

\* C18: a record is not changed after the extractor made it: derivation and
\* content fetching leave every field and the key set of each extracted
\* record as they were, and the enriched output is made of new records.
C18_RecordsNeverMutated ==
  C18_Extracted => judgments = trace.extracted

C18_OwnKeys == {"id", "date", "case_type", "url"}

C18_SameFields(rec, made) ==
  /\ C18_OwnKeys \subseteq DOMAIN rec
  /\ \A key \in C18_OwnKeys : rec[key] = made[key]

\* C18 amended: derivation and content fetching write plain_text_url and
\* then content into the extracted record itself; its four own fields stay
\* as extracted, no other key appears, and the records returned are those
\* same records, each with both keys.
C18_RecordsEnrichedInPlace ==
  C18_Extracted =>
    /\ Len(judgments) = Len(trace.extracted)
    /\ \A i \in 1..Len(judgments) :
         /\ C18_SameFields(judgments[i], trace.extracted[i])
         /\ DOMAIN judgments[i] \subseteq C18_OwnKeys \cup {"plain_text_url", "content"}
         /\ "content" \in DOMAIN judgments[i] => "plain_text_url" \in DOMAIN judgments[i]
    /\ \A k \in 1..Len(result_judgments) :
         {"plain_text_url", "content"} \subseteq DOMAIN judgments[result_judgments[k]]
    /\ (pc = "done" /\ ret.kind = "list" /\ trace.extracted # <<>>) =>
         ret.value = [k \in 1..Len(result_judgments) |-> judgments[result_judgments[k]]]

\* A record has been returned, and it is the extracted record with the two
\* keys written into it.
C18_Witness ==
  /\ C18_Extracted
  /\ pc = "done"
  /\ ret.kind = "list"
  /\ Len(ret.value) = 1
  /\ ret.value[1] = judgments[1]
  /\ judgments[1] # trace.extracted[1]
  /\ DOMAIN judgments[1] = C18_OwnKeys \cup {"plain_text_url", "content"}

(***************************************************************************)
(* C19.  The synthesized construction always ends with a URL.             *)
(***************************************************************************)
C19_InSynth == variant = "full" /\ derive.mode = "synth" /\ pc \in {"probe_synth", "fetch_content"}

\* The probes of the record in hand that asked for a synthesized URL.
C19_SynthProbes ==
  {k \in 1..Len(probes) :
     probes[k].url \in {ExportUrl(derive.id, "1"), ExportUrl(derive.id, "0")}}

\* Records before the one in hand, or all of them once the search is done.
C19_Finished ==
  IF pc = "done" THEN 1..Len(judgments)
  ELSE IF idx = 0 THEN {}
  ELSE 1..(idx - 1)

=============================================================================
